---- MODULE Spec2Model ----
(***************************************************************************)
(* AdBoard backend: the Entity Store (users, devices, content, campaigns), *)
(* the upload directory, the request handlers of the controllers and the   *)
(* middleware chains of the routers, as one state machine.                 *)
(*                                                                         *)
(* A document store is a function from the ObjectIds of its documents to   *)
(* the documents.  A request body is a record whose field "present" lists  *)
(* the fields the JSON body carries; the other fields hold the values.     *)
(* Strings that a schema trims or lower-cases are drawn already trimmed    *)
(* and lower-cased.  Timestamps (createdAt, updatedAt) are left out.       *)
(***************************************************************************)
EXTENDS Integers, Sequences, FiniteSets, TLC

VARIABLES users, devices, contents, campaigns, files, issued, nextOid,
          nextFile, now, req, resp, pending, blocked, warned, boot, client,
          pub

stores == <<users, devices, contents, campaigns, files>>
vars == <<users, devices, contents, campaigns, files, issued, nextOid,
          nextFile, now, req, resp, pending, blocked, warned, boot, client,
          pub>>

(***************************************************************************)
(* Bounds of the model.                                                    *)
(***************************************************************************)
\* ObjectIds are 1..MaxOid, handed out in order and never reused.
MaxOid == 3
\* The clock runs over 1..MaxTime.
MaxTime == 3
\* Upload file names are 1..MaxFile, each generated once (uuid).
MaxFile == 2
\* At most MaxPending requests are in flight at the same time.
MaxPending == 2
\* The calls of publish.
MaxPublish == 3

Oids == 1..MaxOid
Slots == 1..MaxPending
Times == 1..MaxTime

(***************************************************************************)
(* Values.                                                                 *)
(***************************************************************************)
\* A field that is not set (JavaScript undefined) in a document.
Undefined == "<undefined>"
\* A date field that is not set.
NoDate == 0
\* The header of a request that carries no Authorization header, and the
\* token of a request whose token jwt.verify rejects.
NoToken == [kind |-> "none", userId |-> 0]
BadToken == [kind |-> "invalid", userId |-> 0]

DeviceIds == {"disp-1", "disp-2"}
DeviceStatuses == {"online", "offline", "maintenance"}
Orientations == {"landscape", "portrait"}
CampaignStatuses == {"draft", "active", "paused", "completed"}
ContentTypes == {"image", "video", "html", "url"}
ContentStatuses == {"active", "inactive"}
Roles == {"admin", "user"}

\* The value of field f of body b as the handler's destructuring sees it.
Get(b, f) == IF f \in b.present THEN b[f] ELSE Undefined
\* JavaScript truthiness of a string field: present and not "".
TruthyStr(b, f) == f \in b.present /\ b[f] # ""
\* JavaScript truthiness of a number field: present and not 0.
TruthyNum(b, f) == f \in b.present /\ b[f] # 0
\* An array test that also passes for a field the payload does not carry.
TruthyArrAlways(b, f) == TRUE

\* An array is truthy whenever it is present, also when empty.
TruthyArr(b, f) == f \in b.present

Min(S) == CHOOSE x \in S : \A y \in S : x <= y
Elems(s) == {s[i] : i \in 1..Len(s)}
Drop(f, k) == [x \in (DOMAIN f) \ {k} |-> f[x]]

\* res.status(code).json(...): op is the handler, items the listed
\* campaigns as <<_id, name>> pairs, msg the identifier a message names.
Reply(op, code, items, msg) ==
    [op |-> op, status |-> code, handled |-> TRUE, items |-> items, msg |-> msg]
\* The process outside the request handlers: warned holds the files a
\* "Could not delete" warning was logged for; boot is the await startServer
\* is at and how far the process is from its exit; client is the module
\* variable of config/mqtt with the connected flag of the client it holds
\* and whether client.end was called; pub counts the calls of publish, the
\* payloads handed to client.publish and those whose callback has not run
\* yet, and keeps the outcome of the publish promise settled last.
runtime == <<warned, boot, client, pub>>
NoPublish == [calls |-> 0, handed |-> 0, waiting |-> 0, last |-> "none"]
\* The process once app.listen was reached: requests are served.
Running ==
    /\ warned = {}
    /\ boot = [pc |-> "listening", exit |-> "running"]
    /\ client = [made |-> TRUE, connected |-> TRUE, ended |-> FALSE]
    /\ pub = NoPublish
\* A handler that waits at an await: its request and the await it is at.
\* Idle is a slot with no request in flight.
Idle == [op |-> "idle", pc |-> "", id |-> 0, at |-> 0, body |-> [present |-> {}]]
\* The request as the handler receives it.
Send(op, id, key, body) ==
    req' = [op |-> op, token |-> NoToken, id |-> id, key |-> key, body |-> body]
\* A request handled from its first await to its response with no other
\* request in between.
Call(op, id, key, body) ==
    /\ Send(op, id, key, body)
    /\ UNCHANGED <<pending, blocked, runtime>>

(***************************************************************************)
(* Devices.                                                                *)
(***************************************************************************)
NoDeviceBody ==
    [present |-> {}, name |-> "", deviceId |-> "", location |-> "", status |-> "",
     screenOrientation |-> "", screenResolution |-> ""]

\* Device.findOne({ deviceId }): the ObjectIds of the matching documents.
findDevice(deviceId) == {d \in DOMAIN devices : devices[d].deviceId = deviceId}

\* DeviceSchema: required name and deviceId, the enums.
validDevice(doc) ==
    /\ doc.name \notin {Undefined, ""}
    /\ doc.deviceId \notin {Undefined, ""}
    /\ doc.status \in DeviceStatuses
    /\ doc.screenOrientation \in Orientations

\* The unique index on deviceId: no other document holds doc's deviceId.
deviceIdFree(id, doc) ==
    \A d \in (DOMAIN devices) \ {id} : devices[d].deviceId # doc.deviceId

\* A createDevice that takes the status from the payload.
createDeviceWithStatus(b) ==
    LET doc == [name |-> Get(b, "name"),
                deviceId |-> Get(b, "deviceId"),
                location |-> Get(b, "location"),
                status |-> IF TruthyStr(b, "status") THEN b.status ELSE "offline",
                lastSeen |-> now,
                screenOrientation |->
                    IF TruthyStr(b, "screenOrientation") THEN b.screenOrientation
                    ELSE "landscape",
                screenResolution |->
                    IF TruthyStr(b, "screenResolution") THEN b.screenResolution
                    ELSE "1920x1080"]
    IN  IF findDevice(Get(b, "deviceId")) # {}
        THEN /\ resp' = Reply("createDevice", 400, {}, "")
             /\ UNCHANGED <<stores, nextOid>>
        ELSE IF ~(validDevice(doc) /\ deviceIdFree(0, doc))
        THEN /\ resp' = Reply("createDevice", 500, {}, "")
             /\ UNCHANGED <<stores, nextOid>>
        ELSE /\ nextOid <= MaxOid
             /\ devices' = devices @@ (nextOid :> doc)
             /\ nextOid' = nextOid + 1
             /\ resp' = Reply("createDevice", 201, {}, "")
             /\ UNCHANGED <<users, contents, campaigns, files>>

createDevice(b) ==
    LET doc == [name |-> Get(b, "name"),
                deviceId |-> Get(b, "deviceId"),
                location |-> Get(b, "location"),
                status |-> "offline",
                lastSeen |-> now,
                screenOrientation |->
                    IF TruthyStr(b, "screenOrientation") THEN b.screenOrientation
                    ELSE "landscape",
                screenResolution |->
                    IF TruthyStr(b, "screenResolution") THEN b.screenResolution
                    ELSE "1920x1080"]
    IN  IF findDevice(Get(b, "deviceId")) # {}
        THEN /\ resp' = Reply("createDevice", 400, {}, "")
             /\ UNCHANGED <<stores, nextOid>>
        ELSE IF ~(validDevice(doc) /\ deviceIdFree(0, doc))
        THEN /\ resp' = Reply("createDevice", 500, {}, "")
             /\ UNCHANGED <<stores, nextOid>>
        ELSE /\ nextOid <= MaxOid
             /\ devices' = devices @@ (nextOid :> doc)
             /\ nextOid' = nextOid + 1
             /\ resp' = Reply("createDevice", 201, {}, "")
             /\ UNCHANGED <<users, contents, campaigns, files>>

\* An updateDevice that also takes deviceId from the payload.
updateDeviceWithId(id, b) ==
    IF id \notin DOMAIN devices
    THEN /\ resp' = Reply("updateDevice", 404, {}, "")
         /\ UNCHANGED <<stores, nextOid>>
    ELSE LET old == devices[id]
             doc == [old EXCEPT
                 !.deviceId = IF TruthyStr(b, "deviceId") THEN b.deviceId ELSE @,
                 !.name = IF TruthyStr(b, "name") THEN b.name ELSE @,
                 !.location = IF TruthyStr(b, "location") THEN b.location ELSE @,
                 !.status = IF TruthyStr(b, "status") THEN b.status ELSE @,
                 !.screenOrientation =
                     IF TruthyStr(b, "screenOrientation") THEN b.screenOrientation ELSE @,
                 !.screenResolution =
                     IF TruthyStr(b, "screenResolution") THEN b.screenResolution ELSE @,
                 !.lastSeen = IF Get(b, "status") = "online" THEN now ELSE @]
         IN  IF ~(validDevice(doc) /\ deviceIdFree(id, doc))
             THEN /\ resp' = Reply("updateDevice", 500, {}, "")
                  /\ UNCHANGED <<stores, nextOid>>
             ELSE /\ devices' = [devices EXCEPT ![id] = doc]
                  /\ resp' = Reply("updateDevice", 200, {}, "")
                  /\ UNCHANGED <<users, contents, campaigns, files, nextOid>>

updateDevice(id, b) ==
    IF id \notin DOMAIN devices
    THEN /\ resp' = Reply("updateDevice", 404, {}, "")
         /\ UNCHANGED <<stores, nextOid>>
    ELSE LET old == devices[id]
             doc == [old EXCEPT
                 !.name = IF TruthyStr(b, "name") THEN b.name ELSE @,
                 !.location = IF TruthyStr(b, "location") THEN b.location ELSE @,
                 !.status = IF TruthyStr(b, "status") THEN b.status ELSE @,
                 !.screenOrientation =
                     IF TruthyStr(b, "screenOrientation") THEN b.screenOrientation ELSE @,
                 !.screenResolution =
                     IF TruthyStr(b, "screenResolution") THEN b.screenResolution ELSE @,
                 !.lastSeen = IF Get(b, "status") = "online" THEN now ELSE @]
         IN  IF ~(validDevice(doc) /\ deviceIdFree(id, doc))
             THEN /\ resp' = Reply("updateDevice", 500, {}, "")
                  /\ UNCHANGED <<stores, nextOid>>
             ELSE /\ devices' = [devices EXCEPT ![id] = doc]
                  /\ resp' = Reply("updateDevice", 200, {}, "")
                  /\ UNCHANGED <<users, contents, campaigns, files, nextOid>>

updateDeviceStatus(deviceId, b) ==
    IF findDevice(deviceId) = {}
    THEN /\ resp' = Reply("updateDeviceStatus", 404, {}, "")
         /\ UNCHANGED <<stores, nextOid>>
    ELSE LET id == Min(findDevice(deviceId))
             doc == [devices[id] EXCEPT
                 !.status = IF TruthyStr(b, "status") THEN b.status ELSE "online",
                 !.lastSeen = now]
         IN  IF ~(validDevice(doc) /\ deviceIdFree(id, doc))
             THEN /\ resp' = Reply("updateDeviceStatus", 500, {}, "")
                  /\ UNCHANGED <<stores, nextOid>>
             ELSE /\ devices' = [devices EXCEPT ![id] = doc]
                  /\ resp' = Reply("updateDeviceStatus", 200, {}, "")
                  /\ UNCHANGED <<users, contents, campaigns, files, nextOid>>

\* A deleteDevice that also takes the device out of every campaign.
deleteDeviceCascade(id) ==
    IF id \notin DOMAIN devices
    THEN /\ resp' = Reply("deleteDevice", 404, {}, "")
         /\ UNCHANGED <<stores, nextOid>>
    ELSE /\ devices' = Drop(devices, id)
         /\ campaigns' =
               [c \in DOMAIN campaigns |->
                  [campaigns[c] EXCEPT
                     !.targetDevices =
                        SelectSeq(@, LAMBDA x : x # devices[id].deviceId)]]
         /\ resp' = Reply("deleteDevice", 200, {}, "")
         /\ UNCHANGED <<users, contents, files, nextOid>>

deleteDevice(id) ==
    IF id \notin DOMAIN devices
    THEN /\ resp' = Reply("deleteDevice", 404, {}, "")
         /\ UNCHANGED <<stores, nextOid>>
    ELSE /\ devices' = Drop(devices, id)
         /\ resp' = Reply("deleteDevice", 200, {}, "")
         /\ UNCHANGED <<users, contents, campaigns, files, nextOid>>

(***************************************************************************)
(* Campaigns.                                                              *)
(***************************************************************************)
NoCampaignBody ==
    [present |-> {}, name |-> "", description |-> "", status |-> "",
     startDate |-> NoDate, endDate |-> NoDate, targetDevices |-> <<>>,
     contents |-> <<>>]

\* CampaignSchema: required name and endDate, the status enum.
validCampaign(doc) ==
    /\ doc.name \notin {Undefined, ""}
    /\ doc.endDate # NoDate
    /\ doc.status \in CampaignStatuses
    /\ \A i \in 1..Len(doc.targetDevices) : doc.targetDevices[i] # ""

\* A validation that looks at the first identifier of the list only.
firstMissingDeviceHead(b) ==
    IF TruthyArr(b, "targetDevices") /\ Len(b.targetDevices) > 0
          /\ findDevice(b.targetDevices[1]) = {}
    THEN b.targetDevices[1]
    ELSE Undefined

\* The validation loop of createCampaign and updateCampaign: the first
\* identifier of the list, in list order, that no Device carries, or
\* Undefined when the loop runs to its end or is skipped.
firstMissingDevice(b) ==
    IF TruthyArr(b, "targetDevices") /\ Len(b.targetDevices) > 0
    THEN LET miss == {i \in 1..Len(b.targetDevices) :
                         findDevice(b.targetDevices[i]) = {}}
         IN  IF miss = {} THEN Undefined ELSE b.targetDevices[Min(miss)]
    ELSE Undefined

createCampaign(b) ==
    LET doc == [name |-> Get(b, "name"),
                description |-> Get(b, "description"),
                status |-> IF TruthyStr(b, "status") THEN b.status ELSE "draft",
                startDate |-> IF "startDate" \in b.present THEN b.startDate ELSE now,
                endDate |-> IF "endDate" \in b.present THEN b.endDate ELSE NoDate,
                targetDevices |->
                    IF TruthyArr(b, "targetDevices") THEN b.targetDevices ELSE <<>>,
                contents |-> IF TruthyArr(b, "contents") THEN b.contents ELSE <<>>]
    IN  IF firstMissingDevice(b) # Undefined
        THEN /\ resp' = Reply("createCampaign", 400, {}, firstMissingDevice(b))
             /\ UNCHANGED <<stores, nextOid>>
        ELSE IF ~validCampaign(doc)
        THEN /\ resp' = Reply("createCampaign", 500, {}, "")
             /\ UNCHANGED <<stores, nextOid>>
        ELSE /\ nextOid <= MaxOid
             /\ campaigns' = campaigns @@ (nextOid :> doc)
             /\ nextOid' = nextOid + 1
             /\ resp' = Reply("createCampaign", 201, {}, "")
             /\ UNCHANGED <<users, devices, contents, files>>

updateCampaign(id, b) ==
    IF id \notin DOMAIN campaigns
    THEN /\ resp' = Reply("updateCampaign", 404, {}, "")
         /\ UNCHANGED <<stores, nextOid>>
    ELSE IF firstMissingDevice(b) # Undefined
    THEN /\ resp' = Reply("updateCampaign", 400, {}, firstMissingDevice(b))
         /\ UNCHANGED <<stores, nextOid>>
    ELSE LET doc == [campaigns[id] EXCEPT
                 !.name = IF TruthyStr(b, "name") THEN b.name ELSE @,
                 !.description =
                     IF TruthyStr(b, "description") THEN b.description ELSE @,
                 !.status = IF TruthyStr(b, "status") THEN b.status ELSE @,
                 !.startDate = IF "startDate" \in b.present THEN b.startDate ELSE @,
                 !.endDate = IF "endDate" \in b.present THEN b.endDate ELSE @,
                 !.targetDevices =
                     IF TruthyArr(b, "targetDevices") THEN b.targetDevices ELSE @,
                 !.contents = IF TruthyArr(b, "contents") THEN b.contents ELSE @]
         IN  IF ~validCampaign(doc)
             THEN /\ resp' = Reply("updateCampaign", 500, {}, "")
                  /\ UNCHANGED <<stores, nextOid>>
             ELSE /\ campaigns' = [campaigns EXCEPT ![id] = doc]
                  /\ resp' = Reply("updateCampaign", 200, {}, "")
                  /\ UNCHANGED <<users, devices, contents, files, nextOid>>

\* A deleteCampaign that refuses to delete an active campaign.
deleteCampaignGuarded(id) ==
    IF id \notin DOMAIN campaigns
    THEN /\ resp' = Reply("deleteCampaign", 404, {}, "")
         /\ UNCHANGED <<stores, nextOid>>
    ELSE IF campaigns[id].status = "active"
    THEN /\ resp' = Reply("deleteCampaign", 400, {}, "")
         /\ UNCHANGED <<stores, nextOid>>
    ELSE /\ campaigns' = Drop(campaigns, id)
         /\ resp' = Reply("deleteCampaign", 200, {}, "")
         /\ UNCHANGED <<users, devices, contents, files, nextOid>>

deleteCampaign(id) ==
    IF id \notin DOMAIN campaigns
    THEN /\ resp' = Reply("deleteCampaign", 404, {}, "")
         /\ UNCHANGED <<stores, nextOid>>
    ELSE /\ campaigns' = Drop(campaigns, id)
         /\ resp' = Reply("deleteCampaign", 200, {}, "")
         /\ UNCHANGED <<users, devices, contents, files, nextOid>>

\* campaignQuery with the start bound exclusive ($lt for $lte).
campaignQueryStrictStart(deviceId, t) ==
    {c \in DOMAIN campaigns :
        /\ deviceId \in Elems(campaigns[c].targetDevices)
        /\ campaigns[c].status = "active"
        /\ campaigns[c].startDate < t
        /\ campaigns[c].endDate >= t}

\* campaignQuery without the status filter.
campaignQueryAnyStatus(deviceId, t) ==
    {c \in DOMAIN campaigns :
        /\ deviceId \in Elems(campaigns[c].targetDevices)
        /\ campaigns[c].startDate <= t
        /\ campaigns[c].endDate >= t}

\* The Campaign.find query of getDeviceCampaigns, evaluated at time t:
\* targetDevices holds deviceId, status "active", startDate $lte t,
\* endDate $gte t.
campaignQuery(deviceId, t) ==
    {c \in DOMAIN campaigns :
        /\ deviceId \in Elems(campaigns[c].targetDevices)
        /\ campaigns[c].status = "active"
        /\ campaigns[c].startDate <= t
        /\ campaigns[c].endDate >= t}

\* deviceCampaigns without the lookup of the device.
deviceCampaignsNoLookup(deviceId, t) ==
    [op |-> "getDeviceCampaigns", status |-> 200, handled |-> TRUE,
     items |-> {<<c, campaigns[c].name>> :
                   c \in {x \in DOMAIN campaigns :
                             /\ deviceId \in Elems(campaigns[x].targetDevices)
                             /\ campaigns[x].status = "active"
                             /\ campaigns[x].startDate <= t
                             /\ campaigns[x].endDate >= t}},
     msg |-> ""]

\* The response of getDeviceCampaigns(deviceId) when new Date() is t.
deviceCampaigns(deviceId, t) ==
    IF findDevice(deviceId) = {}
    THEN Reply("getDeviceCampaigns", 404, {}, "")
    ELSE Reply("getDeviceCampaigns", 200,
               {<<c, campaigns[c].name>> : c \in campaignQuery(deviceId, t)}, "")

getDeviceCampaigns(deviceId) ==
    /\ resp' = deviceCampaigns(deviceId, now)
    /\ UNCHANGED <<stores, nextOid>>

(***************************************************************************)
(* Content and the upload directory.  A url is the pair of its directory   *)
(* prefix and of path.basename; upload file names are numbers.             *)
(***************************************************************************)
NoFile == 0
NoUrl == [prefix |-> "", base |-> NoFile]
UploadUrl(f) == [prefix |-> "/uploads/", base |-> f]
ExternalUrl == [prefix |-> "https://cdn.example/", base |-> NoFile]
\* content.url.startsWith("/uploads/")
isUpload(url) == url.prefix = "/uploads/"

NoContentBody ==
    [present |-> {}, title |-> "", description |-> "", contentType |-> "",
     url |-> NoUrl, duration |-> 0, status |-> ""]

\* fileFilter of the multer upload: only image/ and video/ MIME types.
fileFilter(mime) == mime \in {"image/png", "video/mp4"}
MimeTypes == {"image/png", "video/mp4", "application/pdf"}

\* upload.single("file"): the name under which the request's file is
\* stored, NoFile when the request has no file or the filter rejects it.
uploadSingle(mime) ==
    IF mime # Undefined /\ fileFilter(mime) THEN nextFile ELSE NoFile

\* The upload directory once upload.single stored file f of the request.
stored(f) == IF f = NoFile THEN files ELSE files \cup {f}

\* deleteFile of utils/upload on directory dir: fs.unlink rejects when
\* the file does not exist, and removes it otherwise.
deleteFile(dir, filename) ==
    [ok |-> filename \in dir, files |-> dir \ {filename}]

\* ContentSchema: required title, contentType and url, the enums.
validContent(doc) ==
    /\ doc.title \notin {Undefined, ""}
    /\ doc.contentType \in ContentTypes
    /\ doc.url.prefix # ""
    /\ doc.status \in ContentStatuses

\* POST /api/content after upload.single stored the request's file as f.
createContent(f, b) ==
    LET url == IF f # NoFile THEN UploadUrl(f)
               ELSE IF "url" \in b.present THEN b.url ELSE NoUrl
        doc == [title |-> Get(b, "title"),
                description |-> Get(b, "description"),
                contentType |-> Get(b, "contentType"),
                url |-> url,
                duration |-> IF TruthyNum(b, "duration") THEN b.duration ELSE 10,
                status |-> IF TruthyStr(b, "status") THEN b.status ELSE "active"]
    IN  /\ f # NoFile => nextFile <= MaxFile
        /\ files' = stored(f)
        /\ nextFile' = IF f = NoFile THEN nextFile ELSE nextFile + 1
        /\ IF f = NoFile /\ Get(b, "contentType") \in {"image", "video"}
           THEN /\ resp' = Reply("createContent", 400, {}, "")
                /\ UNCHANGED <<users, devices, contents, campaigns, nextOid>>
           ELSE IF ~validContent(doc)
           THEN /\ resp' = Reply("createContent", 500, {}, "")
                /\ UNCHANGED <<users, devices, contents, campaigns, nextOid>>
           ELSE /\ nextOid <= MaxOid
                /\ contents' = contents @@ (nextOid :> doc)
                /\ nextOid' = nextOid + 1
                /\ resp' = Reply("createContent", 201, {}, "")
                /\ UNCHANGED <<users, devices, campaigns>>

\* PUT /api/content/:id after upload.single stored the request's file as f.
updateContent(id, f, b) ==
    /\ f # NoFile => nextFile <= MaxFile
    /\ nextFile' = IF f = NoFile THEN nextFile ELSE nextFile + 1
    /\ IF id \notin DOMAIN contents
       THEN /\ resp' = Reply("updateContent", 404, {}, "")
            /\ files' = stored(f)
            /\ UNCHANGED <<users, devices, contents, campaigns, nextOid>>
       ELSE LET old == contents[id]
                dir == IF f # NoFile /\ isUpload(old.url)
                       THEN deleteFile(stored(f), old.url.base).files
                       ELSE stored(f)
                url == IF f # NoFile THEN UploadUrl(f)
                       ELSE IF "url" \in b.present THEN b.url ELSE NoUrl
                doc == [old EXCEPT
                    !.title = IF TruthyStr(b, "title") THEN b.title ELSE @,
                    !.description =
                        IF TruthyStr(b, "description") THEN b.description ELSE @,
                    !.contentType =
                        IF TruthyStr(b, "contentType") THEN b.contentType ELSE @,
                    !.url = IF url.prefix # "" THEN url ELSE @,
                    !.duration = IF TruthyNum(b, "duration") THEN b.duration ELSE @,
                    !.status = IF TruthyStr(b, "status") THEN b.status ELSE @]
            IN  /\ files' = dir
                /\ IF ~validContent(doc)
                   THEN /\ resp' = Reply("updateContent", 500, {}, "")
                        /\ UNCHANGED <<users, devices, contents, campaigns, nextOid>>
                   ELSE /\ contents' = [contents EXCEPT ![id] = doc]
                        /\ resp' = Reply("updateContent", 200, {}, "")
                        /\ UNCHANGED <<users, devices, campaigns, nextOid>>

\* referencing with findOne for find: at most one campaign is reported.
referencingOne(id) ==
    LET all == {c \in DOMAIN campaigns : id \in Elems(campaigns[c].contents)}
    IN  IF all = {} THEN {} ELSE {Min(all)}

\* Campaign.find({ contents: contentId }): the campaigns that reference id.
referencing(id) == {c \in DOMAIN campaigns : id \in Elems(campaigns[c].contents)}

\* A deleteContent that gives up when the file cannot be removed.
deleteContentStrict(id) ==
    IF referencing(id) # {}
    THEN /\ resp' = Reply("deleteContent", 400,
                          {<<c, campaigns[c].name>> : c \in referencing(id)}, "")
         /\ UNCHANGED <<stores, nextOid, nextFile>>
    ELSE IF id \notin DOMAIN contents
    THEN /\ resp' = Reply("deleteContent", 404, {}, "")
         /\ UNCHANGED <<stores, nextOid, nextFile>>
    ELSE IF isUpload(contents[id].url) /\ ~deleteFile(files, contents[id].url.base).ok
    THEN /\ resp' = Reply("deleteContent", 500, {}, "")
         /\ UNCHANGED <<stores, nextOid, nextFile>>
    ELSE /\ files' = IF isUpload(contents[id].url)
                     THEN deleteFile(files, contents[id].url.base).files
                     ELSE files
         /\ contents' = Drop(contents, id)
         /\ resp' = Reply("deleteContent", 200, {}, "")
         /\ UNCHANGED <<users, devices, campaigns, nextOid, nextFile>>

\* deleteContent without the removal of the uploaded file.
deleteContentKeepsFile(id) ==
    IF referencing(id) # {}
    THEN /\ resp' = Reply("deleteContent", 400,
                          {<<c, campaigns[c].name>> : c \in referencing(id)}, "")
         /\ UNCHANGED <<stores, nextOid, nextFile>>
    ELSE IF id \notin DOMAIN contents
    THEN /\ resp' = Reply("deleteContent", 404, {}, "")
         /\ UNCHANGED <<stores, nextOid, nextFile>>
    ELSE /\ contents' = Drop(contents, id)
         /\ resp' = Reply("deleteContent", 200, {}, "")
         /\ UNCHANGED <<users, devices, campaigns, files, nextOid, nextFile>>

deleteContent(id) ==
    IF referencing(id) # {}
    THEN /\ resp' = Reply("deleteContent", 400,
                          {<<c, campaigns[c].name>> : c \in referencing(id)}, "")
         /\ UNCHANGED <<stores, nextOid, nextFile>>
    ELSE IF id \notin DOMAIN contents
    THEN /\ resp' = Reply("deleteContent", 404, {}, "")
         /\ UNCHANGED <<stores, nextOid, nextFile>>
    ELSE /\ files' = IF isUpload(contents[id].url)
                     THEN deleteFile(files, contents[id].url.base).files
                     ELSE files
         /\ contents' = Drop(contents, id)
         /\ resp' = Reply("deleteContent", 200, {}, "")
         /\ UNCHANGED <<users, devices, campaigns, nextOid, nextFile>>

\* POST /api/uploads after upload.single stored the request's file as f.
uploadFile(f) ==
    /\ f # NoFile => nextFile <= MaxFile
    /\ files' = stored(f)
    /\ nextFile' = IF f = NoFile THEN nextFile ELSE nextFile + 1
    /\ resp' = IF f = NoFile THEN Reply("uploadFile", 400, {}, "")
               ELSE Reply("uploadFile", 201, {}, "")
    /\ UNCHANGED <<users, devices, contents, campaigns, nextOid>>

\* DELETE /api/uploads/:filename
deleteUpload(filename) ==
    /\ files' = deleteFile(files, filename).files
    /\ resp' = IF deleteFile(files, filename).ok
               THEN Reply("deleteFile", 200, {}, "")
               ELSE Reply("deleteFile", 500, {}, "")
    /\ UNCHANGED <<users, devices, contents, campaigns, nextOid, nextFile>>

(***************************************************************************)
(* Users, registration and login.                                          *)
(***************************************************************************)
NoUserBody ==
    [present |-> {}, username |-> "", email |-> "", password |-> "", role |-> ""]

\* bcrypt.hash(password, salt), and bcrypt.compare(password, hashed).
hash(password) == "$2b$10$" \o password
compare(password, hashed) == hashed = hash(password)

\* jwt.sign({ userId }): the bearer token of user id.
TokenOf(id) == [kind |-> "valid", userId |-> id]

\* User.findOne({ $or: [{ username }, { email }] })
findUser(username, email) ==
    {u \in DOMAIN users : users[u].username = username \/ users[u].email = email}

\* UserSchema: required username, email and password, the role enum.
validUser(doc) ==
    /\ doc.username \notin {Undefined, ""}
    /\ doc.email \notin {Undefined, ""}
    /\ doc.password \notin {Undefined, ""}
    /\ doc.role \in Roles

\* A User collection with no unique index.
userKeysFreeNoIndex(id, doc) == TRUE

\* The unique indexes on username and on email.
userKeysFree(id, doc) ==
    \A u \in (DOMAIN users) \ {id} :
        users[u].username # doc.username /\ users[u].email # doc.email

\* A register that takes the role from the payload.
registerWithRole(b) ==
    LET doc == [username |-> Get(b, "username"),
                email |-> Get(b, "email"),
                password |-> hash(Get(b, "password")),
                role |-> IF TruthyStr(b, "role") THEN b.role ELSE "user"]
    IN  IF findUser(Get(b, "username"), Get(b, "email")) # {}
        THEN /\ resp' = Reply("register", 400, {}, "")
             /\ UNCHANGED <<stores, nextOid, issued>>
        ELSE IF "password" \notin b.present \/ ~(validUser(doc) /\ userKeysFree(0, doc))
        THEN /\ resp' = Reply("register", 500, {}, "")
             /\ UNCHANGED <<stores, nextOid, issued>>
        ELSE /\ nextOid <= MaxOid
             /\ users' = users @@ (nextOid :> doc)
             /\ issued' = issued \cup {nextOid}
             /\ nextOid' = nextOid + 1
             /\ resp' = Reply("register", 201, {}, "")
             /\ UNCHANGED <<devices, contents, campaigns, files>>

register(b) ==
    LET doc == [username |-> Get(b, "username"),
                email |-> Get(b, "email"),
                password |-> hash(Get(b, "password")),
                role |-> "user"]
    IN  IF findUser(Get(b, "username"), Get(b, "email")) # {}
        THEN /\ resp' = Reply("register", 400, {}, "")
             /\ UNCHANGED <<stores, nextOid, issued>>
        ELSE IF "password" \notin b.present \/ ~(validUser(doc) /\ userKeysFree(0, doc))
        THEN /\ resp' = Reply("register", 500, {}, "")
             /\ UNCHANGED <<stores, nextOid, issued>>
        ELSE /\ nextOid <= MaxOid
             /\ users' = users @@ (nextOid :> doc)
             /\ issued' = issued \cup {nextOid}
             /\ nextOid' = nextOid + 1
             /\ resp' = Reply("register", 201, {}, "")
             /\ UNCHANGED <<devices, contents, campaigns, files>>

login(b) ==
    LET found == {u \in DOMAIN users : users[u].username = Get(b, "username")}
    IN  /\ UNCHANGED <<stores, nextOid>>
        /\ IF found = {}
           THEN resp' = Reply("login", 401, {}, "") /\ UNCHANGED issued
           ELSE IF ~compare(Get(b, "password"), users[Min(found)].password)
           THEN resp' = Reply("login", 401, {}, "") /\ UNCHANGED issued
           ELSE /\ resp' = Reply("login", 200, {}, "")
                /\ issued' = issued \cup {Min(found)}

getAllUsers ==
    /\ resp' = Reply("getAllUsers", 200, {<<u, users[u].username>> : u \in DOMAIN users}, "")
    /\ UNCHANGED <<stores, nextOid>>

getUserById(id) ==
    /\ resp' = IF id \in DOMAIN users
               THEN Reply("getUserById", 200, {<<id, users[id].username>>}, "")
               ELSE Reply("getUserById", 404, {}, "")
    /\ UNCHANGED <<stores, nextOid>>

createUser(b) ==
    LET doc == [username |-> Get(b, "username"),
                email |-> Get(b, "email"),
                password |-> Get(b, "password"),
                role |-> IF TruthyStr(b, "role") THEN b.role ELSE "user"]
    IN  IF findUser(Get(b, "username"), Get(b, "email")) # {}
        THEN /\ resp' = Reply("createUser", 400, {}, "")
             /\ UNCHANGED <<stores, nextOid>>
        ELSE IF ~(validUser(doc) /\ userKeysFree(0, doc))
        THEN /\ resp' = Reply("createUser", 500, {}, "")
             /\ UNCHANGED <<stores, nextOid>>
        ELSE /\ nextOid <= MaxOid
             /\ users' = users @@ (nextOid :> doc)
             /\ nextOid' = nextOid + 1
             /\ resp' = Reply("createUser", 200, {}, "")
             /\ UNCHANGED <<devices, contents, campaigns, files>>

updateUser(id, b) ==
    IF id \notin DOMAIN users
    THEN /\ resp' = Reply("updateUser", 404, {}, "")
         /\ UNCHANGED <<stores, nextOid>>
    ELSE LET doc == [users[id] EXCEPT
                 !.username = IF TruthyStr(b, "username") THEN b.username ELSE @,
                 !.email = IF TruthyStr(b, "email") THEN b.email ELSE @,
                 !.role = IF TruthyStr(b, "role") THEN b.role ELSE @]
         IN  IF ~(validUser(doc) /\ userKeysFree(id, doc))
             THEN /\ resp' = Reply("updateUser", 500, {}, "")
                  /\ UNCHANGED <<stores, nextOid>>
             ELSE /\ users' = [users EXCEPT ![id] = doc]
                  /\ resp' = Reply("updateUser", 200, {}, "")
                  /\ UNCHANGED <<devices, contents, campaigns, files, nextOid>>

deleteUser(id) ==
    IF id \notin DOMAIN users
    THEN /\ resp' = Reply("deleteUser", 404, {}, "")
         /\ UNCHANGED <<stores, nextOid>>
    ELSE /\ users' = Drop(users, id)
         /\ resp' = Reply("deleteUser", 200, {}, "")
         /\ UNCHANGED <<devices, contents, campaigns, files, nextOid>>

(***************************************************************************)
(* The routers and the middleware.                                         *)
(***************************************************************************)
\* The middleware each route puts before its handler.
middleware(op) ==
    CASE op \in {"getAllUsers", "createUser", "updateUser", "deleteUser"} ->
            <<"authenticateToken", "isAdmin">>
      [] op \in {"getUserById", "createContent", "updateContent", "deleteContent",
                 "uploadFile", "deleteFile"} ->
            <<"authenticateToken">>
      [] OTHER -> <<>>

\* authenticateToken: the status it ends the request with, 0 when it
\* calls next() with req.user set to the token's user.
authenticateToken(token) ==
    IF token.kind = "none" THEN 401
    ELSE IF token.kind # "valid" THEN 403
    ELSE IF token.userId \notin DOMAIN users THEN 404
    ELSE 0

\* isAdmin that lets every authenticated user through.
isAdminAnyRole(id) == 0

\* isAdmin for req.user = users[id].
isAdmin(id) == IF users[id].role # "admin" THEN 403 ELSE 0

\* The status with which the middleware of op ends the request that
\* carries token, 0 when the request reaches the handler.
gate(op, token) ==
    IF "authenticateToken" \notin Elems(middleware(op)) THEN 0
    ELSE IF authenticateToken(token) # 0 THEN authenticateToken(token)
    ELSE IF "isAdmin" \in Elems(middleware(op)) THEN isAdmin(token.userId)
    ELSE 0

\* An HTTP request for op that carries token: the middleware of the route,
\* then the handler.
Request(op, token, id, key, body, handler) ==
    /\ req' = [op |-> op, token |-> token, id |-> id, key |-> key, body |-> body]
    /\ UNCHANGED <<pending, blocked, runtime>>
    /\ IF gate(op, token) = 0
       THEN handler
       ELSE /\ resp' = [op |-> op, status |-> gate(op, token), handled |-> FALSE,
                        items |-> {}, msg |-> ""]
            /\ UNCHANGED <<stores, issued, nextOid, nextFile>>

\* Time passes between requests.
Tick ==
    /\ now < MaxTime
    /\ now' = now + 1
    /\ UNCHANGED <<stores, issued, nextOid, nextFile, req, resp, pending, blocked,
                   runtime>>

(***************************************************************************)
(* Initial state: an empty database and an empty upload directory.         *)
(***************************************************************************)
Init ==
    /\ users = <<>>
    /\ devices = <<>>
    /\ contents = <<>>
    /\ campaigns = <<>>
    /\ files = {}
    /\ issued = {}
    /\ nextOid = 1
    /\ nextFile = 1
    /\ now = 1
    /\ req = [op |-> "none", token |-> NoToken, id |-> 0, key |-> "", body |-> [present |-> {}]]
    /\ resp = Reply("none", 0, {}, "")
    /\ pending = [s \in Slots |-> Idle]
    /\ blocked = {}
    /\ Running

(***************************************************************************)
(* Targeting: devices and campaigns are created, changed and deleted, the  *)
(* clock advances, and devices ask for their campaigns.  The request       *)
(* variable keeps the names of the body's fields, not their values.        *)
(***************************************************************************)
Fields(b) == [present |-> b.present]

TargetingDeviceBodies ==
    {[NoDeviceBody EXCEPT !.present = {"name", "deviceId"}, !.name = "lobby",
                          !.deviceId = d] : d \in DeviceIds}

TargetingCreateBodies ==
    {[NoCampaignBody EXCEPT !.present = p, !.name = "promo", !.status = "active",
                            !.startDate = 2, !.endDate = e, !.targetDevices = l] :
        p \in {{"name", "status", "startDate", "endDate", "targetDevices"}},
        e \in {2, MaxTime},
        l \in {<<"disp-1">>, <<"disp-1", "disp-2">>}}

TargetingUpdateBodies ==
    {[NoCampaignBody EXCEPT !.present = {"status"}, !.status = s] :
        s \in {"active", "paused"}}
    \cup {[NoCampaignBody EXCEPT !.present = {"targetDevices"}, !.targetDevices = l] :
        l \in {<<>>, <<"disp-2">>}}

TargetingNext ==
    \/ \E b \in TargetingDeviceBodies :
          Call("createDevice", 0, "", Fields(b)) /\ createDevice(b)
          /\ UNCHANGED <<issued, nextFile, now>>
    \/ \E id \in Oids :
          Call("deleteDevice", id, "", Fields(NoDeviceBody)) /\ deleteDevice(id)
          /\ UNCHANGED <<issued, nextFile, now>>
    \/ \E b \in TargetingCreateBodies :
          Call("createCampaign", 0, "", Fields(b)) /\ createCampaign(b)
          /\ UNCHANGED <<issued, nextFile, now>>
    \/ \E id \in Oids, b \in TargetingUpdateBodies :
          Call("updateCampaign", id, "", Fields(b)) /\ updateCampaign(id, b)
          /\ UNCHANGED <<issued, nextFile, now>>
    \/ \E id \in Oids :
          Call("deleteCampaign", id, "", Fields(NoCampaignBody)) /\ deleteCampaign(id)
          /\ UNCHANGED <<issued, nextFile, now>>
    \/ \E d \in DeviceIds :
          Call("getDeviceCampaigns", 0, d, Fields(NoCampaignBody))
          /\ getDeviceCampaigns(d)
          /\ UNCHANGED <<issued, nextFile, now>>
    \/ Tick

SpecTargeting == Init /\ [][TargetingNext]_vars

(***************************************************************************)
(* Content: content is created with and without an uploaded file, changed  *)
(* and deleted, files are uploaded and deleted on their own, and campaigns *)
(* take content into their lists and drop it.                              *)
(***************************************************************************)
FileNames == 1..MaxFile

ContentCreateBodies ==
    {[NoContentBody EXCEPT !.present = {"title", "contentType"}, !.title = "ad",
                           !.contentType = "image"],
     [NoContentBody EXCEPT !.present = {"title", "contentType", "url"},
                           !.title = "ad", !.contentType = "url", !.url = ExternalUrl]}

ContentUpdateBodies ==
    {[NoContentBody EXCEPT !.present = {"url"}, !.url = ExternalUrl],
     NoContentBody}

ContentCampaignBodies ==
    {[NoCampaignBody EXCEPT !.present = {"name", "endDate", "contents"},
                            !.name = "promo", !.endDate = MaxTime, !.contents = l] :
        l \in {<<1>>, <<2>>}}

ContentCampaignUpdates ==
    {[NoCampaignBody EXCEPT !.present = {"contents"}, !.contents = <<>>]}

ContentNext ==
    \/ \E m \in {Undefined, "image/png", "application/pdf"},
          b \in ContentCreateBodies :
          Call("createContent", 0, "", Fields(b))
          /\ createContent(uploadSingle(m), b)
          /\ UNCHANGED <<issued, now>>
    \/ \E id \in Oids, m \in {Undefined, "video/mp4"}, b \in ContentUpdateBodies :
          Call("updateContent", id, "", Fields(b))
          /\ updateContent(id, uploadSingle(m), b)
          /\ UNCHANGED <<issued, now>>
    \/ \E id \in Oids :
          Call("deleteContent", id, "", Fields(NoContentBody)) /\ deleteContent(id)
          /\ UNCHANGED <<issued, now>>
    \/ \E f \in FileNames :
          Call("deleteFile", f, "", Fields(NoContentBody)) /\ deleteUpload(f)
          /\ UNCHANGED <<issued, now>>
    \/ \E b \in ContentCampaignBodies :
          Call("createCampaign", 0, "", Fields(b)) /\ createCampaign(b)
          /\ UNCHANGED <<issued, nextFile, now>>
    \/ \E id \in Oids, b \in ContentCampaignUpdates :
          Call("updateCampaign", id, "", Fields(b)) /\ updateCampaign(id, b)
          /\ UNCHANGED <<issued, nextFile, now>>
    \/ \E id \in Oids :
          Call("deleteCampaign", id, "", Fields(NoCampaignBody)) /\ deleteCampaign(id)
          /\ UNCHANGED <<issued, nextFile, now>>

SpecContent == Init /\ [][ContentNext]_vars

(***************************************************************************)
(* Access: requests with no token, with a token jwt.verify rejects, and    *)
(* with the tokens that register and login issued, go through the routers. *)
(* The database starts empty or with the admin user of the deployment's    *)
(* init script.                                                            *)
(***************************************************************************)
SeedAdmin ==
    [username |-> "admin", email |-> "admin@adboard.com",
     password |-> hash("adminpassword"), role |-> "admin"]

InitAccess ==
    /\ users \in {<<>>, <<SeedAdmin>>}
    /\ devices = <<>>
    /\ contents = <<>>
    /\ campaigns = <<>>
    /\ files = {}
    /\ issued = {}
    /\ nextOid = Len(users) + 1
    /\ nextFile = 1
    /\ now = 1
    /\ req = [op |-> "none", token |-> NoToken, id |-> 0, key |-> "", body |-> [present |-> {}]]
    /\ resp = Reply("none", 0, {}, "")
    /\ pending = [s \in Slots |-> Idle]
    /\ blocked = {}
    /\ Running

\* The tokens a client can send.
Tokens == {NoToken, BadToken} \cup {TokenOf(u) : u \in issued}

RegisterBodies ==
    {[NoUserBody EXCEPT !.present = {"username", "email", "password", "role"},
                        !.username = "ann", !.email = "ann@x.io", !.password = "pw1",
                        !.role = "admin"]}

LoginBodies ==
    {[NoUserBody EXCEPT !.present = {"username", "password"},
                        !.username = u, !.password = p] :
        <<u, p>> \in {<<"admin", "adminpassword">>, <<"ann", "pw1">>}}

CreateUserBodies ==
    {[NoUserBody EXCEPT !.present = {"username", "email", "password", "role"},
                        !.username = "bob", !.email = "bob@x.io", !.password = "pw2",
                        !.role = "admin"]}

UpdateUserBodies ==
    {[NoUserBody EXCEPT !.present = {"role"}, !.role = "user"]}

AccessDeviceBody ==
    [NoDeviceBody EXCEPT !.present = {"name", "deviceId"}, !.name = "lobby",
                         !.deviceId = "disp-1"]
AccessDeviceUpdate == [NoDeviceBody EXCEPT !.present = {"name"}, !.name = "hall"]
AccessContentBody ==
    [NoContentBody EXCEPT !.present = {"title", "contentType", "url"},
                          !.title = "ad", !.contentType = "url", !.url = ExternalUrl]
AccessContentUpdate == [NoContentBody EXCEPT !.present = {"title"}, !.title = "spot"]
AccessCampaignBody ==
    [NoCampaignBody EXCEPT !.present = {"name", "endDate"}, !.name = "promo",
                           !.endDate = MaxTime]
AccessCampaignUpdate == [NoCampaignBody EXCEPT !.present = {"name"}, !.name = "sale"]

AccessUsers ==
    \/ \E b \in RegisterBodies :
          Request("register", NoToken, 0, "", Fields(b),
                  register(b) /\ UNCHANGED nextFile)
    \/ \E b \in LoginBodies :
          Request("login", NoToken, 0, "", Fields(b), login(b) /\ UNCHANGED nextFile)
    \/ \E t \in Tokens :
          Request("getAllUsers", t, 0, "", Fields(NoUserBody),
                  getAllUsers /\ UNCHANGED <<issued, nextFile>>)
    \/ \E t \in Tokens, id \in Oids :
          Request("getUserById", t, id, "", Fields(NoUserBody),
                  getUserById(id) /\ UNCHANGED <<issued, nextFile>>)
    \/ \E t \in Tokens, b \in CreateUserBodies :
          Request("createUser", t, 0, "", Fields(b),
                  createUser(b) /\ UNCHANGED <<issued, nextFile>>)
    \/ \E t \in Tokens, id \in Oids, b \in UpdateUserBodies :
          Request("updateUser", t, id, "", Fields(b),
                  updateUser(id, b) /\ UNCHANGED <<issued, nextFile>>)
    \/ \E t \in Tokens, id \in Oids :
          Request("deleteUser", t, id, "", Fields(NoUserBody),
                  deleteUser(id) /\ UNCHANGED <<issued, nextFile>>)

AccessEntities ==
    \/ \E t \in Tokens :
          Request("createDevice", t, 0, "", Fields(AccessDeviceBody),
                  createDevice(AccessDeviceBody) /\ UNCHANGED <<issued, nextFile>>)
    \/ \E t \in Tokens, id \in Oids :
          Request("updateDevice", t, id, "", Fields(AccessDeviceUpdate),
                  updateDevice(id, AccessDeviceUpdate) /\ UNCHANGED <<issued, nextFile>>)
    \/ \E t \in Tokens, d \in DeviceIds :
          Request("updateDeviceStatus", t, 0, d, Fields(NoDeviceBody),
                  updateDeviceStatus(d, NoDeviceBody) /\ UNCHANGED <<issued, nextFile>>)
    \/ \E t \in Tokens, id \in Oids :
          Request("deleteDevice", t, id, "", Fields(NoDeviceBody),
                  deleteDevice(id) /\ UNCHANGED <<issued, nextFile>>)
    \/ \E t \in Tokens :
          Request("createContent", t, 0, "", Fields(AccessContentBody),
                  createContent(NoFile, AccessContentBody) /\ UNCHANGED issued)
    \/ \E t \in Tokens, id \in Oids :
          Request("updateContent", t, id, "", Fields(AccessContentUpdate),
                  updateContent(id, NoFile, AccessContentUpdate) /\ UNCHANGED issued)
    \/ \E t \in Tokens, id \in Oids :
          Request("deleteContent", t, id, "", Fields(NoContentBody),
                  deleteContent(id) /\ UNCHANGED issued)
    \/ \E t \in Tokens :
          Request("createCampaign", t, 0, "", Fields(AccessCampaignBody),
                  createCampaign(AccessCampaignBody) /\ UNCHANGED <<issued, nextFile>>)
    \/ \E t \in Tokens, id \in Oids :
          Request("updateCampaign", t, id, "", Fields(AccessCampaignUpdate),
                  updateCampaign(id, AccessCampaignUpdate) /\ UNCHANGED <<issued, nextFile>>)
    \/ \E t \in Tokens, id \in Oids :
          Request("deleteCampaign", t, id, "", Fields(NoCampaignBody),
                  deleteCampaign(id) /\ UNCHANGED <<issued, nextFile>>)

AccessNext == (AccessUsers \/ AccessEntities) /\ UNCHANGED now

SpecAccess == InitAccess /\ [][AccessNext]_vars

(***************************************************************************)
(* User accounts: the handlers that write the User store, called with the  *)
(* usernames and emails chosen to collide.                                 *)
(***************************************************************************)
UserNames == {"ann", "bob"}
Emails == {"ann@x.io", "bob@x.io"}

AccountRegisterBodies ==
    {[NoUserBody EXCEPT !.present = {"username", "email", "password"},
                        !.username = u, !.email = e, !.password = "pw1"] :
        u \in UserNames, e \in Emails}

AccountCreateBodies ==
    {[NoUserBody EXCEPT !.present = {"username", "email", "password"},
                        !.username = u, !.email = e, !.password = "pw2"] :
        u \in UserNames, e \in Emails}

AccountUpdateBodies ==
    {[NoUserBody EXCEPT !.present = {"username"}, !.username = u] : u \in UserNames}
      \cup {[NoUserBody EXCEPT !.present = {"email"}, !.email = e] : e \in Emails}

AccountsNext ==
    /\ \/ \E b \in AccountRegisterBodies : Call("register", 0, "", b) /\ register(b)
       \/ \E b \in AccountCreateBodies :
             Call("createUser", 0, "", b) /\ createUser(b) /\ UNCHANGED issued
       \/ \E id \in Oids, b \in AccountUpdateBodies :
             Call("updateUser", id, "", b) /\ updateUser(id, b) /\ UNCHANGED issued
       \/ \E id \in Oids :
             Call("deleteUser", id, "", NoUserBody) /\ deleteUser(id) /\ UNCHANGED issued
    /\ UNCHANGED <<nextFile, now>>

SpecAccounts == InitAccess /\ [][AccountsNext]_vars

(***************************************************************************)
(* Updates: every update handler with partial payloads, with payloads that *)
(* carry an empty string or a zero, and campaign payloads that name a      *)
(* device nobody registered.                                               *)
(***************************************************************************)
UpdateDeviceCreate ==
    [NoDeviceBody EXCEPT !.present = {"name", "deviceId", "location"},
                         !.name = "lobby", !.deviceId = "disp-1", !.location = "hq"]

UpdateDeviceBodies ==
    {[NoDeviceBody EXCEPT !.present = {"name"}, !.name = "hall"],
     [NoDeviceBody EXCEPT !.present = {"status"}, !.status = "online"]}

UpdateCampaignCreate ==
    {[NoCampaignBody EXCEPT
         !.present = {"name", "description", "endDate", "targetDevices"},
         !.name = "promo", !.description = "summer", !.endDate = MaxTime,
         !.targetDevices = t] : t \in {<<"disp-1">>, <<"disp-1", "disp-2">>}}

UpdateCampaignBodies ==
    {[NoCampaignBody EXCEPT !.present = {"name"}, !.name = "sale"],
     [NoCampaignBody EXCEPT !.present = {"description"}, !.description = ""],
     [NoCampaignBody EXCEPT !.present = {"name", "targetDevices"}, !.name = "sale",
                            !.targetDevices = <<"disp-1", "disp-2">>]}

UpdateContentCreate ==
    [NoContentBody EXCEPT !.present = {"title", "contentType", "url", "duration"},
                          !.title = "ad", !.contentType = "url", !.url = ExternalUrl,
                          !.duration = 30]

UpdateContentBodies ==
    {[NoContentBody EXCEPT !.present = {"title"}, !.title = "spot"],
     [NoContentBody EXCEPT !.present = {"duration"}, !.duration = 0]}

UpdateUserCreate ==
    [NoUserBody EXCEPT !.present = {"username", "email", "password"},
                       !.username = "ann", !.email = "ann@x.io", !.password = "pw1"]

UserUpdateBodies ==
    {[NoUserBody EXCEPT !.present = {"role"}, !.role = "admin"]}

UpdateNext ==
    \/ /\ \/ Call("createDevice", 0, "", UpdateDeviceCreate)
             /\ createDevice(UpdateDeviceCreate)
          \/ \E id \in Oids, b \in UpdateDeviceBodies :
                Call("updateDevice", id, "", b) /\ updateDevice(id, b)
          \/ \E b \in UpdateCampaignCreate :
                Call("createCampaign", 0, "", b) /\ createCampaign(b)
          \/ \E id \in Oids, b \in UpdateCampaignBodies :
                Call("updateCampaign", id, "", b) /\ updateCampaign(id, b)
          \/ \E id \in Oids, b \in UserUpdateBodies :
                Call("updateUser", id, "", b) /\ updateUser(id, b)
       /\ UNCHANGED <<issued, nextFile, now>>
    \/ /\ Call("register", 0, "", UpdateUserCreate) /\ register(UpdateUserCreate)
       /\ UNCHANGED <<nextFile, now>>
    \/ /\ \/ Call("createContent", 0, "", UpdateContentCreate)
             /\ createContent(NoFile, UpdateContentCreate)
          \/ \E id \in Oids, m \in {Undefined, "video/mp4"}, b \in UpdateContentBodies :
                Call("updateContent", id, "", b) /\ updateContent(id, uploadSingle(m), b)
       /\ UNCHANGED <<issued, now>>
    \/ Tick

SpecUpdate == Init /\ [][UpdateNext]_vars

(***************************************************************************)
(* Requests in flight.  A handler runs up to an await, and other requests  *)
(* run before it continues: createDevice and register await the lookup     *)
(* and then the save, createCampaign awaits one Device.findOne for every   *)
(* target device and then the save.                                        *)
(***************************************************************************)
\* new Device({...}) of createDevice.
newDevice(b) ==
    [name |-> Get(b, "name"),
     deviceId |-> Get(b, "deviceId"),
     location |-> Get(b, "location"),
     status |-> "offline",
     lastSeen |-> now,
     screenOrientation |->
         IF TruthyStr(b, "screenOrientation") THEN b.screenOrientation ELSE "landscape",
     screenResolution |->
         IF TruthyStr(b, "screenResolution") THEN b.screenResolution ELSE "1920x1080"]

\* new User({...}) of register.
newUser(b) ==
    [username |-> Get(b, "username"),
     email |-> Get(b, "email"),
     password |-> hash(Get(b, "password")),
     role |-> "user"]

\* new Campaign({...}) of createCampaign.
newCampaign(b) ==
    [name |-> Get(b, "name"),
     description |-> Get(b, "description"),
     status |-> IF TruthyStr(b, "status") THEN b.status ELSE "draft",
     startDate |-> IF "startDate" \in b.present THEN b.startDate ELSE now,
     endDate |-> IF "endDate" \in b.present THEN b.endDate ELSE NoDate,
     targetDevices |-> IF TruthyArr(b, "targetDevices") THEN b.targetDevices ELSE <<>>,
     contents |-> IF TruthyArr(b, "contents") THEN b.contents ELSE <<>>]

\* The first await of the handler of op with body b.
firstAwait(op, b) ==
    IF op = "updateCampaign" THEN "find"
    ELSE IF op = "deleteContent" THEN "refs"
    ELSE IF op = "createCampaign"
            /\ ~(TruthyArr(b, "targetDevices") /\ Len(b.targetDevices) > 0)
    THEN "save"
    ELSE "lookup"

\* The request arrives and its handler runs up to its first await.
Begin(s, op, b) ==
    /\ pending[s] = Idle
    /\ pending' = [pending EXCEPT
                      ![s] = [op |-> op, pc |-> firstAwait(op, b), id |-> 0, at |-> 1,
                              body |-> b]]
    /\ UNCHANGED <<stores, issued, nextOid, nextFile, now, req, resp, blocked,
                   runtime>>

\* The handler of slot s goes on to its await pc.
Await(s, pc) ==
    /\ pending' = [pending EXCEPT ![s].pc = pc, ![s].at = 1]
    /\ UNCHANGED <<stores, issued, nextOid, req, resp>>

\* The handler of slot s answers.
Respond(s, code, msg) ==
    /\ Send(pending[s].op, pending[s].id, "", pending[s].body)
    /\ resp' = Reply(pending[s].op, code, {}, msg)
    /\ pending' = [pending EXCEPT ![s] = Idle]

\* createDevice: Device.findOne({ deviceId }) resolves.
createDeviceLookup(s) ==
    /\ pending[s].op = "createDevice" /\ pending[s].pc = "lookup"
    /\ IF findDevice(Get(pending[s].body, "deviceId")) # {}
       THEN Respond(s, 400, "") /\ UNCHANGED <<stores, issued, nextOid>>
       ELSE Await(s, "save")

\* A save that the unique index on deviceId does not guard.
createDeviceSaveNoIndex(s) ==
    LET doc == newDevice(pending[s].body)
    IN  /\ pending[s].op = "createDevice" /\ pending[s].pc = "save"
        /\ IF ~validDevice(doc)
           THEN Respond(s, 500, "") /\ UNCHANGED <<stores, issued, nextOid>>
           ELSE /\ nextOid <= MaxOid
                /\ devices' = devices @@ (nextOid :> doc)
                /\ nextOid' = nextOid + 1
                /\ Respond(s, 201, "")
                /\ UNCHANGED <<users, contents, campaigns, files, issued>>

\* createDevice: device.save() resolves or throws.
createDeviceSave(s) ==
    LET doc == newDevice(pending[s].body)
    IN  /\ pending[s].op = "createDevice" /\ pending[s].pc = "save"
        /\ IF ~(validDevice(doc) /\ deviceIdFree(0, doc))
           THEN Respond(s, 500, "") /\ UNCHANGED <<stores, issued, nextOid>>
           ELSE /\ nextOid <= MaxOid
                /\ devices' = devices @@ (nextOid :> doc)
                /\ nextOid' = nextOid + 1
                /\ Respond(s, 201, "")
                /\ UNCHANGED <<users, contents, campaigns, files, issued>>

\* register: User.findOne({ $or: [{ username }, { email }] }) resolves.
registerLookup(s) ==
    /\ pending[s].op = "register" /\ pending[s].pc = "lookup"
    /\ IF findUser(Get(pending[s].body, "username"), Get(pending[s].body, "email")) # {}
       THEN Respond(s, 400, "") /\ UNCHANGED <<stores, issued, nextOid>>
       ELSE Await(s, "save")

\* register: user.save() resolves or throws.
registerSave(s) ==
    LET doc == newUser(pending[s].body)
    IN  /\ pending[s].op = "register" /\ pending[s].pc = "save"
        /\ IF ~("password" \in pending[s].body.present
                  /\ validUser(doc) /\ userKeysFree(0, doc))
           THEN Respond(s, 500, "") /\ UNCHANGED <<stores, issued, nextOid>>
           ELSE /\ nextOid <= MaxOid
                /\ users' = users @@ (nextOid :> doc)
                /\ nextOid' = nextOid + 1
                /\ issued' = issued \cup {nextOid}
                /\ Respond(s, 201, "")
                /\ UNCHANGED <<devices, contents, campaigns, files>>

\* A loop that goes on to the end of the list and answers for its last
\* identifier only.
createCampaignLookupLast(s) ==
    LET l == pending[s].body.targetDevices
        i == pending[s].at
    IN  /\ pending[s].op = "createCampaign" /\ pending[s].pc = "lookup"
        /\ IF i < Len(l)
           THEN /\ pending' = [pending EXCEPT ![s].at = i + 1]
                /\ UNCHANGED <<stores, issued, nextOid, req, resp>>
           ELSE IF findDevice(l[i]) = {}
           THEN Respond(s, 400, l[i]) /\ UNCHANGED <<stores, issued, nextOid>>
           ELSE Await(s, "save")

\* createCampaign: the Device.findOne of the loop's current identifier
\* resolves.
createCampaignLookup(s) ==
    LET l == pending[s].body.targetDevices
        i == pending[s].at
    IN  /\ pending[s].op = "createCampaign" /\ pending[s].pc = "lookup"
        /\ IF findDevice(l[i]) = {}
           THEN Respond(s, 400, l[i]) /\ UNCHANGED <<stores, issued, nextOid>>
           ELSE IF i < Len(l)
           THEN /\ pending' = [pending EXCEPT ![s].at = i + 1]
                /\ UNCHANGED <<stores, issued, nextOid, req, resp>>
           ELSE Await(s, "save")

\* A save inside a transaction that looks the target devices up again.
createCampaignSaveChecked(s) ==
    LET doc == newCampaign(pending[s].body)
    IN  /\ pending[s].op = "createCampaign" /\ pending[s].pc = "save"
        /\ IF firstMissingDevice(pending[s].body) # Undefined
           THEN Respond(s, 400, firstMissingDevice(pending[s].body))
                /\ UNCHANGED <<stores, issued, nextOid>>
           ELSE IF ~validCampaign(doc)
           THEN Respond(s, 500, "") /\ UNCHANGED <<stores, issued, nextOid>>
           ELSE /\ nextOid <= MaxOid
                /\ campaigns' = campaigns @@ (nextOid :> doc)
                /\ nextOid' = nextOid + 1
                /\ Respond(s, 201, "")
                /\ UNCHANGED <<users, devices, contents, files, issued>>

\* createCampaign: campaign.save() resolves or throws.
createCampaignSave(s) ==
    LET doc == newCampaign(pending[s].body)
    IN  /\ pending[s].op = "createCampaign" /\ pending[s].pc = "save"
        /\ IF ~validCampaign(doc)
           THEN Respond(s, 500, "") /\ UNCHANGED <<stores, issued, nextOid>>
           ELSE /\ nextOid <= MaxOid
                /\ campaigns' = campaigns @@ (nextOid :> doc)
                /\ nextOid' = nextOid + 1
                /\ Respond(s, 201, "")
                /\ UNCHANGED <<users, devices, contents, files, issued>>

RaceDeviceBodies ==
    {[NoDeviceBody EXCEPT !.present = {"name", "deviceId"}, !.name = n,
                          !.deviceId = "disp-1"] : n \in {"lobby", "hall"}}

RaceUserBodies ==
    {[NoUserBody EXCEPT !.present = {"username", "email", "password"},
                        !.username = u, !.email = "ann@x.io", !.password = "pw1"] :
        u \in {"ann", "bob"}}

RaceCampaignBodies ==
    {[NoCampaignBody EXCEPT !.present = {"name", "endDate", "targetDevices"},
                            !.name = "promo", !.endDate = MaxTime,
                            !.targetDevices = <<"disp-1">>]}

RaceFrame == UNCHANGED <<nextFile, now, blocked, runtime>>

RaceNext ==
    \/ \E s \in Slots, b \in RaceDeviceBodies : Begin(s, "createDevice", b)
    \/ \E s \in Slots, b \in RaceUserBodies : Begin(s, "register", b)
    \/ \E s \in Slots, b \in RaceCampaignBodies : Begin(s, "createCampaign", b)
    \/ \E s \in Slots : createDeviceLookup(s) /\ RaceFrame
    \/ \E s \in Slots : createDeviceSave(s) /\ RaceFrame
    \/ \E s \in Slots : registerLookup(s) /\ RaceFrame
    \/ \E s \in Slots : registerSave(s) /\ RaceFrame
    \/ \E s \in Slots : createCampaignLookup(s) /\ RaceFrame
    \/ \E s \in Slots : createCampaignSave(s) /\ RaceFrame
    \/ \E id \in Oids :
          /\ Send("deleteDevice", id, "", NoDeviceBody)
          /\ deleteDevice(id)
          /\ UNCHANGED <<pending, issued>>
          /\ RaceFrame

SpecRace == Init /\ [][RaceNext]_vars

(***************************************************************************)
(* Campaign and content requests in flight: updateCampaign awaits          *)
(* Campaign.findById, one Device.findOne for every target device and the   *)
(* save; deleteContent awaits Campaign.find, Content.findById, the removal *)
(* of the file and Content.findByIdAndDelete.  Devices and content are     *)
(* created in between.                                                     *)
(***************************************************************************)
\* The request on document id arrives and its handler runs up to its
\* first await.
BeginOn(s, op, id, b) ==
    /\ pending[s] = Idle
    /\ pending' = [pending EXCEPT
                      ![s] = [op |-> op, pc |-> firstAwait(op, b), id |-> id, at |-> 1,
                              body |-> b]]
    /\ UNCHANGED <<stores, issued, nextOid, nextFile, now, req, resp, blocked,
                   runtime>>

\* updateCampaign: Campaign.findById(req.params.id) resolves.
updateCampaignFind(s) ==
    LET b == pending[s].body
    IN  /\ pending[s].op = "updateCampaign" /\ pending[s].pc = "find"
        /\ IF pending[s].id \notin DOMAIN campaigns
           THEN Respond(s, 404, "") /\ UNCHANGED <<stores, issued, nextOid>>
           ELSE IF TruthyArr(b, "targetDevices") /\ Len(b.targetDevices) > 0
           THEN Await(s, "lookup")
           ELSE Await(s, "save")

\* updateCampaign: the Device.findOne of the loop's current identifier
\* resolves.
updateCampaignLookup(s) ==
    LET l == pending[s].body.targetDevices
        i == pending[s].at
    IN  /\ pending[s].op = "updateCampaign" /\ pending[s].pc = "lookup"
        /\ IF findDevice(l[i]) = {}
           THEN Respond(s, 400, l[i]) /\ UNCHANGED <<stores, issued, nextOid>>
           ELSE IF i < Len(l)
           THEN /\ pending' = [pending EXCEPT ![s].at = i + 1]
                /\ UNCHANGED <<stores, issued, nextOid, req, resp>>
           ELSE Await(s, "save")

\* A save that assigns targetDevices from the payload even when the payload
\* has none.
updateCampaignSaveReset(s) ==
    LET b == pending[s].body
        id == pending[s].id
    IN  /\ pending[s].op = "updateCampaign" /\ pending[s].pc = "save"
        /\ IF id \notin DOMAIN campaigns
           THEN Respond(s, 500, "") /\ UNCHANGED <<stores, issued, nextOid>>
           ELSE LET doc == [campaigns[id] EXCEPT
                        !.name = IF TruthyStr(b, "name") THEN b.name ELSE @,
                        !.description =
                            IF TruthyStr(b, "description") THEN b.description ELSE @,
                        !.status = IF TruthyStr(b, "status") THEN b.status ELSE @,
                        !.startDate =
                            IF "startDate" \in b.present THEN b.startDate ELSE @,
                        !.endDate = IF "endDate" \in b.present THEN b.endDate ELSE @,
                        !.targetDevices =
                            b.targetDevices,
                        !.contents =
                            IF TruthyArr(b, "contents") THEN b.contents ELSE @]
                IN  IF ~validCampaign(doc)
                    THEN Respond(s, 500, "") /\ UNCHANGED <<stores, issued, nextOid>>
                    ELSE /\ campaigns' = [campaigns EXCEPT ![id] = doc]
                         /\ Respond(s, 200, "")
                         /\ UNCHANGED <<users, devices, contents, files, issued,
                                        nextOid>>

\* updateCampaign: the fields are assigned and campaign.save() resolves, or
\* throws when validation fails or the document is gone.
updateCampaignSave(s) ==
    LET b == pending[s].body
        id == pending[s].id
    IN  /\ pending[s].op = "updateCampaign" /\ pending[s].pc = "save"
        /\ IF id \notin DOMAIN campaigns
           THEN Respond(s, 500, "") /\ UNCHANGED <<stores, issued, nextOid>>
           ELSE LET doc == [campaigns[id] EXCEPT
                        !.name = IF TruthyStr(b, "name") THEN b.name ELSE @,
                        !.description =
                            IF TruthyStr(b, "description") THEN b.description ELSE @,
                        !.status = IF TruthyStr(b, "status") THEN b.status ELSE @,
                        !.startDate =
                            IF "startDate" \in b.present THEN b.startDate ELSE @,
                        !.endDate = IF "endDate" \in b.present THEN b.endDate ELSE @,
                        !.targetDevices =
                            IF TruthyArr(b, "targetDevices") THEN b.targetDevices ELSE @,
                        !.contents =
                            IF TruthyArr(b, "contents") THEN b.contents ELSE @]
                IN  IF ~validCampaign(doc)
                    THEN Respond(s, 500, "") /\ UNCHANGED <<stores, issued, nextOid>>
                    ELSE /\ campaigns' = [campaigns EXCEPT ![id] = doc]
                         /\ Respond(s, 200, "")
                         /\ UNCHANGED <<users, devices, contents, files, issued,
                                        nextOid>>

\* deleteContent: Campaign.find({ contents: contentId }) resolves.
deleteContentRefs(s) ==
    /\ pending[s].op = "deleteContent" /\ pending[s].pc = "refs"
    /\ IF referencing(pending[s].id) # {}
       THEN Respond(s, 400, "") /\ UNCHANGED <<stores, issued, nextOid>>
       ELSE Await(s, "find")

\* deleteContent: Content.findById(req.params.id) resolves; the slot keeps
\* the url of the document it loaded.
deleteContentFind(s) ==
    /\ pending[s].op = "deleteContent" /\ pending[s].pc = "find"
    /\ IF pending[s].id \notin DOMAIN contents
       THEN Respond(s, 404, "") /\ UNCHANGED <<stores, issued, nextOid>>
       ELSE /\ pending' = [pending EXCEPT
                             ![s].pc = "delete",
                             ![s].body = [NoContentBody EXCEPT
                                             !.url = contents[pending[s].id].url]]
            /\ UNCHANGED <<stores, issued, nextOid, req, resp>>

\* deleteContent: the file of the loaded url is removed and
\* Content.findByIdAndDelete resolves.
deleteContentDelete(s) ==
    /\ pending[s].op = "deleteContent" /\ pending[s].pc = "delete"
    /\ files' = IF isUpload(pending[s].body.url)
                THEN deleteFile(files, pending[s].body.url.base).files
                ELSE files
    /\ contents' = IF pending[s].id \in DOMAIN contents
                   THEN Drop(contents, pending[s].id)
                   ELSE contents
    /\ Respond(s, 200, "")
    /\ UNCHANGED <<users, devices, campaigns, issued, nextOid>>

\* Campaigns are created and updated with a list of two identifiers, with
\* an empty list and with no list, while the devices are registered.
FlightNext ==
    \/ \E d \in DeviceIds :
          /\ Send("createDevice", 0, "", NoDeviceBody)
          /\ createDevice([NoDeviceBody EXCEPT !.present = {"name", "deviceId"},
                                               !.name = "lobby", !.deviceId = d])
          /\ UNCHANGED <<pending, issued>>
          /\ RaceFrame
    \/ \E s \in Slots, l \in {<<>>, <<"disp-2", "disp-1">>} :
          \/ Begin(s, "createCampaign",
                   [NoCampaignBody EXCEPT !.present = {"name", "endDate", "targetDevices"},
                                          !.name = "promo", !.endDate = MaxTime,
                                          !.targetDevices = l])
          \/ Begin(s, "createCampaign",
                   [NoCampaignBody EXCEPT !.present = {"name", "endDate"},
                                          !.name = "promo", !.endDate = MaxTime])
    \/ \E s \in Slots, id \in Oids :
          \/ \E l \in {<<>>, <<"disp-1", "disp-2">>} :
                BeginOn(s, "updateCampaign", id,
                        [NoCampaignBody EXCEPT !.present = {"targetDevices"},
                                               !.targetDevices = l])
          \/ BeginOn(s, "updateCampaign", id,
                     [NoCampaignBody EXCEPT !.present = {"name"}, !.name = "sale"])
    \/ \E s \in Slots : createCampaignLookup(s) /\ RaceFrame
    \/ \E s \in Slots : createCampaignSave(s) /\ RaceFrame
    \/ \E s \in Slots : updateCampaignFind(s) /\ RaceFrame
    \/ \E s \in Slots : updateCampaignLookup(s) /\ RaceFrame
    \/ \E s \in Slots : updateCampaignSave(s) /\ RaceFrame

SpecFlight == Init /\ [][FlightNext]_vars

\* Content is created, campaigns take it into their lists, and
\* deleteContent runs while they do.
DetachNext ==
    \/ /\ Send("createContent", 0, "", NoContentBody)
       /\ createContent(NoFile,
                        [NoContentBody EXCEPT !.present = {"title", "contentType", "url"},
                                              !.title = "ad", !.contentType = "url",
                                              !.url = ExternalUrl])
       /\ UNCHANGED <<pending, issued, now, blocked, runtime>>
    \/ \E s \in Slots :
          Begin(s, "createCampaign",
                [NoCampaignBody EXCEPT !.present = {"name", "endDate", "contents"},
                                       !.name = "promo", !.endDate = MaxTime,
                                       !.contents = <<1>>])
    \/ \E s \in Slots, id \in Oids, l \in {<<>>, <<1>>} :
          BeginOn(s, "updateCampaign", id,
                  [NoCampaignBody EXCEPT !.present = {"contents"}, !.contents = l])
    \/ \E s \in Slots, id \in Oids : BeginOn(s, "deleteContent", id, NoContentBody)
    \/ \E s \in Slots : createCampaignSave(s) /\ RaceFrame
    \/ \E s \in Slots : updateCampaignFind(s) /\ RaceFrame
    \/ \E s \in Slots : updateCampaignSave(s) /\ RaceFrame
    \/ \E s \in Slots : deleteContentRefs(s) /\ RaceFrame
    \/ \E s \in Slots : deleteContentFind(s) /\ RaceFrame
    \/ \E s \in Slots : deleteContentDelete(s) /\ RaceFrame

SpecDetach == Init /\ [][DetachNext]_vars

(***************************************************************************)
(* Uploads: multipart requests that carry a file of some MIME type, or no  *)
(* file, to the content and the upload endpoints.  The request variable    *)
(* keeps the MIME type of the file in key.                                 *)
(***************************************************************************)
UploadContentBodies ==
    {[NoContentBody EXCEPT !.present = {"title", "contentType"}, !.title = "ad",
                           !.contentType = t] : t \in {"image", "html"}}
      \cup {[NoContentBody EXCEPT !.present = {"title", "contentType", "url"},
                                  !.title = "ad", !.contentType = "url",
                                  !.url = ExternalUrl]}

UploadContentUpdates ==
    {[NoContentBody EXCEPT !.present = {"title"}, !.title = "spot"]}

UploadNext ==
    \/ \E m \in MimeTypes \cup {Undefined}, b \in UploadContentBodies :
          Call("createContent", 0, m, b)
          /\ createContent(uploadSingle(m), b)
          /\ UNCHANGED <<issued, now>>
    \/ \E id \in Oids, m \in MimeTypes \cup {Undefined}, b \in UploadContentUpdates :
          Call("updateContent", id, m, b)
          /\ updateContent(id, uploadSingle(m), b)
          /\ UNCHANGED <<issued, now>>
    \/ \E m \in MimeTypes \cup {Undefined} :
          Call("uploadFile", 0, m, NoContentBody)
          /\ uploadFile(uploadSingle(m))
          /\ UNCHANGED <<issued, now>>
    \/ \E f \in FileNames :
          Call("deleteFile", f, "", NoContentBody) /\ deleteUpload(f)
          /\ UNCHANGED <<issued, now>>
    \/ \E id \in Oids :
          Call("deleteContent", id, "", NoContentBody) /\ deleteContent(id)
          /\ UNCHANGED <<issued, now>>

SpecUpload == Init /\ [][UploadNext]_vars

(***************************************************************************)
(* Removal of files: content with an uploaded file is created, its file is *)
(* replaced by payloads the schema accepts and by one it rejects, files    *)
(* are deleted through the upload endpoint, and content is deleted.  The   *)
(* variable warned holds the warnings the last request logged.             *)
(***************************************************************************)
\* logger.warn after a failed deleteFile of the file of url in dir: the
\* file names the handler warns about.
unlinkWarning(dir, url) ==
    IF isUpload(url) /\ ~deleteFile(dir, url.base).ok THEN {url.base} ELSE {}

UnlinkFrame == UNCHANGED <<pending, issued, now, blocked, boot, client, pub>>

UnlinkNext ==
    \/ \E b \in {[NoContentBody EXCEPT !.present = {"title", "contentType"},
                                       !.title = "ad", !.contentType = "image"]} :
          /\ Send("createContent", 0, "image/png", b)
          /\ createContent(uploadSingle("image/png"), b)
          /\ warned' = {}
          /\ UnlinkFrame
    \/ \E id \in Oids, m \in {Undefined, "video/mp4"},
          b \in {[NoContentBody EXCEPT !.present = {"title"}, !.title = "spot"],
                 [NoContentBody EXCEPT !.present = {"status"}, !.status = "archived"]} :
          /\ Send("updateContent", id, m, b)
          /\ updateContent(id, uploadSingle(m), b)
          /\ warned' = IF id \in DOMAIN contents /\ uploadSingle(m) # NoFile
                       THEN unlinkWarning(stored(uploadSingle(m)), contents[id].url)
                       ELSE {}
          /\ UnlinkFrame
    \/ \E id \in Oids :
          /\ Send("deleteContent", id, "", NoContentBody)
          /\ deleteContent(id)
          /\ warned' = IF id \in DOMAIN contents /\ referencing(id) = {}
                       THEN unlinkWarning(files, contents[id].url)
                       ELSE {}
          /\ UnlinkFrame
    \/ \E f \in FileNames :
          /\ Send("deleteFile", f, "", NoContentBody)
          /\ deleteUpload(f)
          /\ warned' = {}
          /\ UnlinkFrame

SpecUnlink == Init /\ [][UnlinkNext]_vars

(***************************************************************************)
(* Release: campaigns of every status, with and without targets and        *)
(* contents, are deleted, and content is deleted before and after.  The    *)
(* variable blocked remembers the content whose deletion was refused.      *)
(***************************************************************************)
ReleaseDeviceBody ==
    [NoDeviceBody EXCEPT !.present = {"name", "deviceId"}, !.name = "lobby",
                         !.deviceId = "disp-1"]

ReleaseContentBody ==
    [NoContentBody EXCEPT !.present = {"title", "contentType", "url"},
                          !.title = "ad", !.contentType = "url", !.url = ExternalUrl]

ReleaseCampaignBodies ==
    {[NoCampaignBody EXCEPT
         !.present = {"name", "status", "endDate", "targetDevices", "contents"},
         !.name = "promo", !.status = st, !.endDate = MaxTime,
         !.targetDevices = t, !.contents = l] :
        st \in {"active", "completed"},
        t \in {<<>>, <<"disp-1">>},
        l \in {<<>>, <<1>>, <<2>>}}

ReleaseNext ==
    \/ Call("createDevice", 0, "", Fields(ReleaseDeviceBody))
          /\ createDevice(ReleaseDeviceBody)
          /\ UNCHANGED <<issued, nextFile, now>>
    \/ Call("createContent", 0, "", Fields(ReleaseContentBody))
          /\ createContent(NoFile, ReleaseContentBody)
          /\ UNCHANGED <<issued, now>>
    \/ \E b \in ReleaseCampaignBodies :
          Call("createCampaign", 0, "", Fields(b)) /\ createCampaign(b)
          /\ UNCHANGED <<issued, nextFile, now>>
    \/ \E id \in Oids :
          Call("deleteCampaign", id, "", Fields(NoCampaignBody)) /\ deleteCampaign(id)
          /\ UNCHANGED <<issued, nextFile, now>>
    \/ \E id \in Oids :
          /\ Send("deleteContent", id, "", Fields(NoContentBody))
          /\ deleteContent(id)
          /\ blocked' = IF resp'.status = 400 THEN blocked \cup {id} ELSE blocked
          /\ UNCHANGED <<pending, issued, now, runtime>>

SpecRelease == Init /\ [][ReleaseNext]_vars

(***************************************************************************)
(* Devices: devices are created, changed through both update endpoints     *)
(* with payloads that carry a deviceId, and deleted, while time passes.    *)
(***************************************************************************)
DeviceCreateBodies ==
    {[NoDeviceBody EXCEPT !.present = {"name", "deviceId", "status"}, !.name = "lobby",
                          !.deviceId = d, !.status = "online"] : d \in DeviceIds}

DeviceUpdateBodies ==
    {[NoDeviceBody EXCEPT !.present = {"deviceId"}, !.deviceId = "disp-2"],
     [NoDeviceBody EXCEPT !.present = {"name", "deviceId"}, !.name = "hall",
                          !.deviceId = "disp-1"]}
    \cup {[NoDeviceBody EXCEPT !.present = {"status"}, !.status = st] :
             st \in {"online", "maintenance"}}

DeviceStatusBodies ==
    {NoDeviceBody,
     [NoDeviceBody EXCEPT !.present = {"status", "deviceId"},
                          !.status = "maintenance", !.deviceId = "disp-2"]}

DevicesNext ==
    \/ \E b \in DeviceCreateBodies :
          Call("createDevice", 0, "", b) /\ createDevice(b)
          /\ UNCHANGED <<issued, nextFile, now>>
    \/ \E id \in Oids, b \in DeviceUpdateBodies :
          Call("updateDevice", id, "", b) /\ updateDevice(id, b)
          /\ UNCHANGED <<issued, nextFile, now>>
    \/ \E d \in DeviceIds, b \in DeviceStatusBodies :
          Call("updateDeviceStatus", 0, d, b) /\ updateDeviceStatus(d, b)
          /\ UNCHANGED <<issued, nextFile, now>>
    \/ \E id \in Oids :
          Call("deleteDevice", id, "", NoDeviceBody) /\ deleteDevice(id)
          /\ UNCHANGED <<issued, nextFile, now>>
    \/ Tick

SpecDevices == Init /\ [][DevicesNext]_vars

(***************************************************************************)
(* Startup, shutdown and the messaging client.  startServer awaits         *)
(* connectDB and then connect of config/mqtt before it listens; the client *)
(* raises its events whenever the broker connection changes; publish and   *)
(* the signal handlers run at any time.  The "reconnect" handler only logs *)
(* and is left out.                                                        *)
(***************************************************************************)
\* The process right after startServer() was called.
InitBoot ==
    /\ users = <<>>
    /\ devices = <<>>
    /\ contents = <<>>
    /\ campaigns = <<>>
    /\ files = {}
    /\ issued = {}
    /\ nextOid = 1
    /\ nextFile = 1
    /\ now = 1
    /\ req = [op |-> "none", token |-> NoToken, id |-> 0, key |-> "", body |-> [present |-> {}]]
    /\ resp = Reply("none", 0, {}, "")
    /\ pending = [s \in Slots |-> Idle]
    /\ blocked = {}
    /\ warned = {}
    /\ boot = [pc |-> "connectDB", exit |-> "running"]
    /\ client = [made |-> FALSE, connected |-> FALSE, ended |-> FALSE]
    /\ pub = NoPublish

\* The process has not called process.exit.
alive == boot.exit \in {"running", "closing"}

\* A connectDB that logs the error and returns.
connectDBFailsQuietly ==
    /\ alive /\ boot.pc = "connectDB"
    /\ boot' = [boot EXCEPT !.pc = "connectMqtt"]
    /\ UNCHANGED <<client, pub>>

\* connectDB rethrows the error of mongoose.connect: startServer's catch
\* exits with code 1.
connectDBFails ==
    /\ alive /\ boot.pc = "connectDB"
    /\ boot' = [boot EXCEPT !.exit = "1"]
    /\ UNCHANGED <<client, pub>>

\* connectDB resolves and startServer calls connect of config/mqtt, which
\* throws when MQTT_BROKER_URL is not defined (url is FALSE) and creates
\* the client and registers its handlers otherwise.
connectDBDone(url) ==
    /\ alive /\ boot.pc = "connectDB"
    /\ IF url
       THEN /\ boot' = [boot EXCEPT !.pc = "connectMqtt"]
            /\ client' = [made |-> TRUE, connected |-> FALSE, ended |-> FALSE]
       ELSE /\ boot' = [boot EXCEPT !.exit = "1"]
            /\ UNCHANGED client
    /\ UNCHANGED pub

\* client.on("connect"): the promise of connect resolves, and startServer,
\* if it is waiting for it, calls app.listen.
onConnect ==
    /\ alive /\ client.made /\ ~client.connected /\ ~client.ended
    /\ client' = [client EXCEPT !.connected = TRUE]
    /\ boot' = IF boot.pc = "connectMqtt" THEN [boot EXCEPT !.pc = "listening"] ELSE boot
    /\ UNCHANGED pub

\* client.on("error"): the promise of connect rejects, and startServer, if
\* it is waiting for it, exits with code 1.  Once the promise is settled
\* the handler only logs.
onError ==
    /\ alive /\ client.made /\ ~client.ended
    /\ boot.pc = "connectMqtt"
    /\ boot' = [boot EXCEPT !.exit = "1"]
    /\ UNCHANGED <<client, pub>>

\* The connection closes and client.on("offline") logs it.
onOffline ==
    /\ alive /\ client.made /\ client.connected
    /\ client' = [client EXCEPT !.connected = FALSE]
    /\ UNCHANGED <<boot, pub>>

\* A publish that looks at the client only, not at its connected flag.
publishQueued ==
    /\ alive /\ pub.calls < MaxPublish
    /\ pub' = IF ~client.made
              THEN [pub EXCEPT !.calls = @ + 1, !.last = "not connected"]
              ELSE [pub EXCEPT !.calls = @ + 1, !.handed = @ + 1, !.waiting = @ + 1]
    /\ UNCHANGED <<boot, client>>

\* publish(topic, message): rejects when there is no connected client and
\* hands the payload to client.publish otherwise.
publish ==
    /\ alive /\ pub.calls < MaxPublish
    /\ pub' = IF ~client.made \/ ~client.connected
              THEN [pub EXCEPT !.calls = @ + 1, !.last = "not connected"]
              ELSE [pub EXCEPT !.calls = @ + 1, !.handed = @ + 1, !.waiting = @ + 1]
    /\ UNCHANGED <<boot, client>>

\* The callback of client.publish runs with or without an error.
publishDone(err) ==
    /\ alive /\ pub.waiting > 0
    /\ pub' = [pub EXCEPT !.waiting = @ - 1,
                          !.last = IF err THEN "error" ELSE "resolved"]
    /\ UNCHANGED <<boot, client>>

\* disconnect(): client.end when there is a connected client.
disconnect ==
    client' = IF client.made /\ client.connected
              THEN [client EXCEPT !.connected = FALSE, !.ended = TRUE]
              ELSE client

\* SIGTERM or SIGINT: the handler awaits disconnect() and disconnectDB().
shutdown ==
    /\ boot.exit = "running"
    /\ disconnect
    /\ boot' = [boot EXCEPT !.exit = "closing"]
    /\ UNCHANGED pub

\* The signal handler reaches process.exit(0).
exit ==
    /\ boot.exit = "closing"
    /\ boot' = [boot EXCEPT !.exit = "0"]
    /\ UNCHANGED <<client, pub>>

BootFrame ==
    UNCHANGED <<stores, issued, nextOid, nextFile, now, req, resp, pending, blocked,
                warned>>

BootNext ==
    \/ connectDBFails /\ BootFrame
    \/ \E url \in BOOLEAN : connectDBDone(url) /\ BootFrame
    \/ onConnect /\ BootFrame
    \/ onError /\ BootFrame
    \/ onOffline /\ BootFrame
    \/ publish /\ BootFrame
    \/ \E err \in BOOLEAN : publishDone(err) /\ BootFrame
    \/ shutdown /\ BootFrame
    \/ exit /\ BootFrame

SpecBoot == InitBoot /\ [][BootNext]_vars

(***************************************************************************)
(* Claims on targeting.                                                    *)
(***************************************************************************)
\* Campaign c lists the deviceId of device d, is active, and t lies in its
\* window, both ends included.
Eligible(c, d, t) ==
    /\ \E i \in 1..Len(campaigns[c].targetDevices) :
          campaigns[c].targetDevices[i] = devices[d].deviceId
    /\ campaigns[c].status = "active"
    /\ ~(t < campaigns[c].startDate)
    /\ ~(campaigns[c].endDate < t)

\* C1: for every existing device D, every stored campaign C and every
\* evaluation time t, getDeviceCampaigns(D.deviceId) evaluated at t answers
\* 200 and returns C if and only if D.deviceId is in C.targetDevices, C is
\* active and C.startDate <= t <= C.endDate; it returns stored campaigns only.
C1_EligibilityIff ==
    \A d \in DOMAIN devices : \A t \in Times :
        LET r == deviceCampaigns(devices[d].deviceId, t)
        IN  /\ r.status = 200
            /\ \A c \in DOMAIN campaigns :
                  <<c, campaigns[c].name>> \in r.items <=> Eligible(c, d, t)
            /\ \A it \in r.items : it[1] \in DOMAIN campaigns

\* A device asked at the instant that is both the start and the end of a
\* campaign's window, and got the campaign.
C1_Witness ==
    /\ resp.op = "getDeviceCampaigns"
    /\ resp.status = 200
    /\ \E c \in DOMAIN campaigns :
          /\ <<c, campaigns[c].name>> \in resp.items
          /\ campaigns[c].startDate = now
          /\ campaigns[c].endDate = now

\* C2: getDeviceCampaigns for an identifier that no Device carries answers
\* 404 and returns no campaign, whatever the campaigns list.
C2_UnknownDevice ==
    /\ \A k \in DeviceIds : \A t \in Times :
          findDevice(k) = {} =>
              /\ deviceCampaigns(k, t).status = 404
              /\ deviceCampaigns(k, t).items = {}
    /\ (resp.op = "getDeviceCampaigns" /\ findDevice(req.key) = {}) =>
          (resp.status = 404 /\ resp.items = {})

\* The device was deleted, an active campaign whose window holds now still
\* lists it, and the request for its campaigns was answered 404.
C2_Witness ==
    /\ resp.op = "getDeviceCampaigns"
    /\ resp.status = 404
    /\ findDevice(req.key) = {}
    /\ \E c \in DOMAIN campaigns :
          /\ req.key \in Elems(campaigns[c].targetDevices)
          /\ campaigns[c].status = "active"
          /\ campaigns[c].startDate <= now
          /\ now <= campaigns[c].endDate

(***************************************************************************)
(* Claims on content deletion.                                             *)
(***************************************************************************)
\* A step that is a deleteContent request.
DeleteContentStep == resp'.op = "deleteContent" /\ <<req, resp, stores>>' # <<req, resp, stores>>

\* C3: deleteContent(id), when a stored campaign has id in its contents,
\* answers 400 with exactly the campaigns whose contents hold id, and leaves
\* the Content store, the Campaign store and the uploaded files unchanged.
C3_ReferencedContentKept ==
    [][(DeleteContentStep /\ \E c \in DOMAIN campaigns :
                                \E i \in 1..Len(campaigns[c].contents) :
                                    campaigns[c].contents[i] = req'.id)
       => /\ resp'.status = 400
          /\ resp'.items =
                {<<c, campaigns[c].name>> :
                    c \in {x \in DOMAIN campaigns :
                              \E i \in 1..Len(campaigns[x].contents) :
                                  campaigns[x].contents[i] = req'.id}}
          /\ contents' = contents
          /\ campaigns' = campaigns
          /\ files' = files]_vars

\* deleteContent was refused for an existing content whose uploaded file is
\* in the directory, naming one campaign while another campaign is stored.
C3_Witness ==
    /\ resp.op = "deleteContent"
    /\ resp.status = 400
    /\ Cardinality(resp.items) = 1
    /\ Cardinality(DOMAIN campaigns) = 2
    /\ req.id \in DOMAIN contents
    /\ isUpload(contents[req.id].url)
    /\ contents[req.id].url.base \in files

UserAdminOps == {"getAllUsers", "createUser", "updateUser", "deleteUser"}

\* C8: a request that carries no valid bearer token, other than register
\* and login, leaves the devices, contents, campaigns, users and files as
\* they were.
C8_UnauthenticatedNoChange ==
    [][(req'.token.kind # "valid" /\ req'.op \notin {"register", "login"})
          => stores' = stores]_vars

\* C9: the user list, create, update and delete handlers run only for the
\* token of an existing admin; no token is answered 401, a token that does
\* not verify 403, the token of a non-admin 403, and the users are then
\* left as they were with no handler run.
C9_AdminOnly ==
    [][req'.op \in UserAdminOps =>
          LET t == req'.token
              refused(code) == /\ resp'.status = code
                               /\ ~resp'.handled
                               /\ users' = users
          IN  /\ resp'.handled => /\ t.kind = "valid"
                                  /\ t.userId \in DOMAIN users
                                  /\ users[t.userId].role = "admin"
              /\ t.kind = "none" => refused(401)
              /\ t.kind = "invalid" => refused(403)
              /\ (/\ t.kind = "valid"
                  /\ t.userId \in DOMAIN users
                  /\ users[t.userId].role # "admin") => refused(403)]_vars

C9_Witness ==
    /\ req.op = "deleteUser"
    /\ req.token.kind = "valid"
    /\ req.token.userId \in DOMAIN users
    /\ users[req.token.userId].role = "user"
    /\ req.id \in DOMAIN users
    /\ resp.op = "deleteUser"
    /\ resp.status = 403
    /\ ~resp.handled
    /\ \E a \in DOMAIN users : users[a].role = "admin"

(***************************************************************************)
(* Claims on user accounts.                                                *)
(***************************************************************************)
UniqueUsers ==
    \A u, v \in DOMAIN users :
        u # v => /\ users[u].username # users[v].username
                 /\ users[u].email # users[v].email

\* C10: no two users ever share a username or an email; a register whose
\* email is already stored is answered with the 400 conflict and exactly
\* one user with that email stays stored.
C10_UniqueUsers ==
    /\ []UniqueUsers
    /\ [][(/\ req'.op = "register"
           /\ \E u \in DOMAIN users : users[u].email = req'.body.email)
             => /\ resp'.status = 400
                /\ users' = users
                /\ Cardinality({u \in DOMAIN users' :
                                   users'[u].email = req'.body.email}) = 1]_vars

C10_Witness ==
    /\ req.op = "register"
    /\ resp.op = "register"
    /\ resp.status = 400
    /\ Cardinality({u \in DOMAIN users : users[u].email = req.body.email}) = 1
    /\ \A u \in DOMAIN users : users[u].username # req.body.username
    /\ \E u \in DOMAIN users : /\ users[u].email = req.body.email
                               /\ users[u].role = "user"
                               /\ u \in issued

(***************************************************************************)
(* Claims on updates.                                                      *)
(***************************************************************************)
CampaignFields ==
    {"name", "description", "status", "startDate", "endDate", "targetDevices",
     "contents"}
DeviceFields ==
    {"name", "deviceId", "location", "status", "lastSeen", "screenOrientation",
     "screenResolution"}
ContentFields == {"title", "description", "contentType", "url", "duration", "status"}
UserFields == {"username", "email", "password", "role"}

\* The step from store old to store new keeps the fields of record id
\* listed in kept, and every other record.
Kept(old, new, id, kept) ==
    /\ DOMAIN new = DOMAIN old
    /\ \A j \in DOMAIN old :
          IF j = id THEN \A f \in kept : new[j][f] = old[j][f]
          ELSE new[j] = old[j]

\* The step of a request, as opposed to the passing of time.
RequestStep == now' = now

\* Some identifier of the payload's targetDevices is carried by no device.
MissingTarget(b) ==
    /\ "targetDevices" \in b.present
    /\ \E i \in 1..Len(b.targetDevices) :
          \A d \in DOMAIN devices : devices[d].deviceId # b.targetDevices[i]

\* C5: createCampaign, and updateCampaign of a stored campaign, with a
\* target device that no Device carries answer 400 and write nothing: no
\* campaign is added and no field of any campaign changes.
C5_MissingDeviceNoWrite ==
    [][(/\ RequestStep
        /\ MissingTarget(req'.body)
        /\ \/ req'.op = "createCampaign"
           \/ req'.op = "updateCampaign" /\ req'.id \in DOMAIN campaigns)
          => /\ resp'.status = 400
             /\ stores' = stores
             /\ nextOid' = nextOid]_vars

C5_Witness ==
    /\ req.op = "updateCampaign"
    /\ req.body.present = {"name", "targetDevices"}
    /\ req.body.targetDevices = <<"disp-1", "disp-2">>
    /\ findDevice("disp-1") # {}
    /\ findDevice("disp-2") = {}
    /\ resp.op = "updateCampaign"
    /\ resp.status = 400
    /\ resp.msg = "disp-2"
    /\ req.id \in DOMAIN campaigns
    /\ campaigns[req.id].name = "promo"
    /\ campaigns[req.id].targetDevices = <<"disp-1">>

\* The fields of the addressed record that the payload of the request
\* does not carry; a multipart payload with a file carries the url.
Absent(fields) ==
    (fields \ req'.body.present) \ (IF nextFile' # nextFile THEN {"url"} ELSE {})

C7_PresentFieldsApplied ==
    [][(RequestStep /\ resp'.status = 200) =>
          LET applied(store) ==
                  \A f \in req'.body.present : store[req'.id][f] = req'.body[f]
          IN  /\ req'.op = "updateCampaign" => applied(campaigns')
              /\ req'.op = "updateDevice" => applied(devices')
              /\ req'.op = "updateContent" => applied(contents')
              /\ req'.op = "updateUser" => applied(users')]_vars

(***************************************************************************)
(* Claims on requests in flight.                                           *)
(***************************************************************************)
UniqueDeviceIds ==
    \A d, e \in DOMAIN devices : d # e => devices[d].deviceId # devices[e].deviceId

\* A step of the createDevice handler of some slot.
CreateDeviceStep ==
    \E s \in Slots : pending[s].op = "createDevice" /\ pending'[s] # pending[s]

\* C11: no two devices ever carry the same deviceId, whatever the
\* interleaving of the createDevice requests, and no step of createDevice
\* removes or changes a stored device.
C11_UniqueDeviceIds ==
    /\ []UniqueDeviceIds
    /\ [][CreateDeviceStep =>
             \A d \in DOMAIN devices : d \in DOMAIN devices' /\ devices'[d] = devices[d]]_vars

\* The second of two createDevice requests that both passed the lookup:
\* its save threw, and the device of the first request is stored.
C11_Witness ==
    /\ req.op = "createDevice"
    /\ resp.op = "createDevice"
    /\ resp.status = 500
    /\ \E d \in DOMAIN devices :
          /\ devices[d].deviceId = req.body.deviceId
          /\ devices[d].name # req.body.name
    /\ Cardinality(findDevice(req.body.deviceId)) = 1

\* The unique key of the request that a step answers is taken when the
\* step is made.
KeyTaken ==
    \/ req'.op = "createDevice" /\ findDevice(Get(req'.body, "deviceId")) # {}
    \/ req'.op = "register"
          /\ findUser(Get(req'.body, "username"), Get(req'.body, "email")) # {}

\* C12: a createDevice or register that is answered while its unique key
\* is taken is answered 400.
C12_ConflictIs400 ==
    [][(resp' # resp /\ KeyTaken) => resp'.status = 400]_vars

\* C19: the save of createCampaign does not look the target devices up
\* again: a campaign that passed the lookups is stored with its
\* targetDevices whatever devices exist when the save runs.
C19_SaveNotRevalidated ==
    [][\A s \in Slots :
          (/\ pending[s].op = "createCampaign"
           /\ pending[s].pc = "save"
           /\ pending'[s] = Idle
           /\ validCampaign(newCampaign(pending[s].body)))
             => /\ resp'.status = 201
                /\ campaigns' = campaigns @@ (nextOid :> newCampaign(pending[s].body))]_vars

\* The campaign was stored by the request just answered, and the device
\* its lookup found is gone.
C19_Witness ==
    /\ req.op = "createCampaign"
    /\ resp.op = "createCampaign"
    /\ resp.status = 201
    /\ nextOid - 1 \in DOMAIN campaigns
    /\ campaigns[nextOid - 1].targetDevices = <<"disp-1">>
    /\ findDevice("disp-1") = {}

(***************************************************************************)
(* Claims on uploads.                                                      *)
(***************************************************************************)
\* C13: a request to createContent or uploadFile whose file is neither an
\* image nor a video stores no file and creates no Content record.
C13_FilteredUploadRejected ==
    [][(req'.op \in {"createContent", "uploadFile"}
          /\ req'.key # Undefined /\ ~fileFilter(req'.key))
          => /\ files' = files
             /\ contents' = contents]_vars

(***************************************************************************)
(* Claims on the release of content.                                       *)
(***************************************************************************)
\* C14: deleteCampaign of a stored campaign answers 200 and removes it
\* whatever its status, targets and contents; content that only this
\* campaign referenced is referenced by none afterwards; and deleteContent
\* of stored content is refused exactly while some campaign references it.
C14_DeleteCampaignReleases ==
    [][/\ (req'.op = "deleteCampaign" /\ req'.id \in DOMAIN campaigns) =>
             /\ resp'.status = 200
             /\ campaigns' = Drop(campaigns, req'.id)
             /\ contents' = contents
             /\ \A x \in DOMAIN contents :
                   referencing(x) = {req'.id} =>
                      \A c \in DOMAIN campaigns' : x \notin Elems(campaigns'[c].contents)
       /\ (req'.op = "deleteContent" /\ req'.id \in DOMAIN contents) =>
             IF referencing(req'.id) # {}
             THEN resp'.status = 400 /\ contents' = contents
             ELSE resp'.status = 200 /\ contents' = Drop(contents, req'.id)]_vars

\* Content whose deletion was refused is deleted after the campaign that
\* referenced it was.
C14_Witness ==
    /\ req.op = "deleteContent"
    /\ resp.op = "deleteContent"
    /\ resp.status = 200
    /\ req.id \in blocked
    /\ req.id \notin DOMAIN contents
    /\ campaigns = <<>>

(***************************************************************************)
(* Claims on status changes.                                               *)
(***************************************************************************)
\* C15: once updateCampaign has answered 200, a campaign whose status is
\* not "active" is in no getDeviceCampaigns answer, for every device and
\* time, and a campaign whose status is "active" is in the answer of every
\* stored target device at every time of its window; getDeviceCampaigns
\* answers from the campaigns stored when it is asked.
C15_StatusTakesEffect ==
    [][RequestStep =>
          /\ (req'.op = "updateCampaign" /\ resp'.status = 200) =>
                LET c == req'.id
                    listed(d, t) ==
                        <<c, campaigns'[c].name>> \in (deviceCampaigns(d, t).items)'
                IN  \A d \in DeviceIds, t \in Times :
                       /\ campaigns'[c].status # "active" => ~listed(d, t)
                       /\ (/\ campaigns'[c].status = "active"
                           /\ findDevice(d) # {}
                           /\ d \in Elems(campaigns'[c].targetDevices)
                           /\ campaigns'[c].startDate <= t
                           /\ t <= campaigns'[c].endDate) => listed(d, t)
          /\ req'.op = "getDeviceCampaigns" =>
                \A d \in DeviceIds :
                   req'.key = d => resp' = (deviceCampaigns(d, now))']_vars

\* A device asks for its campaigns inside the window of a campaign that
\* targets it and was paused, and gets none.
C15_Witness ==
    /\ req.op = "getDeviceCampaigns"
    /\ resp.op = "getDeviceCampaigns"
    /\ resp.status = 200
    /\ resp.items = {}
    /\ \E c \in DOMAIN campaigns :
          /\ campaigns[c].status = "paused"
          /\ req.key \in Elems(campaigns[c].targetDevices)
          /\ campaigns[c].startDate <= now
          /\ now <= campaigns[c].endDate

(***************************************************************************)
(* Claims on passwords.                                                    *)
(***************************************************************************)
Passwords == {"adminpassword", "pw1", "pw2"}

\* C16: the password of every stored user is the hash of a supplied
\* password, never the supplied password, and bcrypt.compare accepts the
\* supplied password against it.
C16_PasswordsHashed ==
    \A u \in DOMAIN users :
        /\ users[u].password \notin Passwords
        /\ \E p \in Passwords : compare(p, users[u].password)

C18_ContentsValidated ==
    [][(/\ req'.op \in {"createCampaign", "updateCampaign"}
        /\ resp'.op = req'.op
        /\ resp'.status \in {200, 201})
          => LET c == IF req'.op = "createCampaign" THEN nextOid ELSE req'.id
             IN  /\ c \in DOMAIN campaigns'
                 /\ \A x \in Elems(campaigns'[c].contents) : x \in DOMAIN contents']_vars

(***************************************************************************)
(* Claims on deleted devices.                                              *)
(***************************************************************************)
\* C20: deleteDevice of a stored device answers 200 and changes the Device
\* store only, so every campaign keeps its targetDevices; and an
\* updateCampaign whose payload carries no targetDevices is not refused
\* for a missing target and keeps the list.
C20_DeleteDeviceKeepsCampaigns ==
    [][RequestStep =>
          /\ (req'.op = "deleteDevice" /\ req'.id \in DOMAIN devices) =>
                /\ resp'.status = 200
                /\ devices' = Drop(devices, req'.id)
                /\ <<users, contents, campaigns, files>>' =
                      <<users, contents, campaigns, files>>
          /\ (/\ req'.op = "updateCampaign"
              /\ req'.id \in DOMAIN campaigns
              /\ "targetDevices" \notin req'.body.present) =>
                /\ resp'.status = 200
                /\ campaigns'[req'.id].targetDevices = campaigns[req'.id].targetDevices]_vars

\* A campaign that lists a deleted device had its status updated.
C20_Witness ==
    /\ req.op = "updateCampaign"
    /\ req.body.present = {"status"}
    /\ resp.op = "updateCampaign"
    /\ resp.status = 200
    /\ req.id \in DOMAIN campaigns
    /\ \E i \in 1..Len(campaigns[req.id].targetDevices) :
          findDevice(campaigns[req.id].targetDevices[i]) = {}

(***************************************************************************)
(* Claims on the validation of target devices.                             *)
(***************************************************************************)
\* C21: in createCampaign and updateCampaign the lookups follow the list
\* order, one identifier at a time; the lookup of an identifier that no
\* Device carries answers 400 with that identifier, writes nothing and
\* ends the request, so every identifier before it had a Device and no
\* identifier after it is looked up.
C21_FirstMissingReported ==
    [][\A s \in Slots :
          (/\ pending[s].op \in {"createCampaign", "updateCampaign"}
           /\ pending[s].pc = "lookup"
           /\ pending'[s] # pending[s]) =>
             LET l == pending[s].body.targetDevices
                 i == pending[s].at
             IN  /\ \A j \in 1..(i - 1) : findDevice(l[j]) # {}
                 /\ IF findDevice(l[i]) = {}
                    THEN /\ resp' = Reply(pending[s].op, 400, {}, l[i])
                         /\ req'.body = pending[s].body
                         /\ pending'[s] = Idle
                         /\ stores' = stores
                    ELSE /\ resp' = resp
                         /\ pending'[s].op = pending[s].op
                         /\ IF i < Len(l)
                            THEN pending'[s].pc = "lookup" /\ pending'[s].at = i + 1
                            ELSE pending'[s].pc = "save"]_vars

\* A list whose two identifiers both have no Device was answered with the
\* first of them.
C21_Witness ==
    /\ resp.op \in {"createCampaign", "updateCampaign"}
    /\ resp.status = 400
    /\ req.op = resp.op
    /\ Len(req.body.targetDevices) = 2
    /\ \A j \in 1..2 : findDevice(req.body.targetDevices[j]) = {}
    /\ resp.msg = req.body.targetDevices[1]

\* A payload with no targetDevices list, or with an empty one.
NoTargets(b) == "targetDevices" \notin b.present \/ Len(b.targetDevices) = 0

C23_UnlinkFailureTolerated ==
    [][warned' # {} =>
          /\ warned' \cap files = {}
          /\ resp'.op \in {"deleteContent", "updateContent"}
          /\ req'.id \in DOMAIN contents
          /\ resp'.op = "deleteContent" =>
                /\ resp'.status = 200
                /\ contents' = Drop(contents, req'.id)
          /\ resp'.op = "updateContent" =>
                IF validContent([contents[req'.id] EXCEPT
                                    !.title = IF TruthyStr(req'.body, "title")
                                              THEN req'.body.title ELSE @,
                                    !.status = IF TruthyStr(req'.body, "status")
                                               THEN req'.body.status ELSE @])
                THEN /\ resp'.status = 200
                     /\ contents'[req'.id].url = UploadUrl(nextFile)
                     /\ nextFile \in files'
                ELSE resp'.status = 500]_vars

\* deleteContent was answered 200 although the file of the record was
\* already gone.
C23_Witness ==
    /\ warned # {}
    /\ resp = Reply("deleteContent", 200, {}, "")
    /\ req.id \notin DOMAIN contents

\* C28: in updateContent and deleteContent the uploaded file of the record
\* is removed only when the record ends up saved with another url or
\* removed; in particular it is still there after an answer of 500.
C28_FileRemovedWithRecord ==
    [][\A id \in DOMAIN contents :
          (/\ resp'.op \in {"updateContent", "deleteContent"}
           /\ isUpload(contents[id].url)
           /\ contents[id].url.base \in files
           /\ contents[id].url.base \notin files') =>
             /\ resp'.status = 200
             /\ id \in DOMAIN contents' => contents'[id].url # contents[id].url]_vars

(***************************************************************************)
(* Claims on content deleted while campaigns change.                       *)
(***************************************************************************)
\* C25: with deleteContent, createCampaign and updateCampaign in flight
\* together, a Content record is never removed while a stored campaign
\* lists it.
C25_NoDeleteWhileReferenced ==
    [][\A x \in DOMAIN contents :
          x \notin DOMAIN contents' =>
             \A c \in DOMAIN campaigns' : x \notin Elems(campaigns'[c].contents)]_vars

(***************************************************************************)
(* Claims on the messaging client and on startup.                          *)
(***************************************************************************)
\* C24: a call of publish with no client, or with a client that is not
\* connected (never connected yet, offline, or ended by disconnect),
\* settles as "not connected" and hands nothing to the client; with a
\* connected client it hands the payload over and stays unsettled; and a
\* publish promise resolves only in a step in which a callback of
\* client.publish runs.
C24_PublishNeedsConnection ==
    /\ [][pub'.calls # pub.calls =>
             IF ~(client.made /\ client.connected)
             THEN pub' = [pub EXCEPT !.calls = @ + 1, !.last = "not connected"]
             ELSE pub' = [pub EXCEPT !.calls = @ + 1, !.handed = @ + 1,
                                     !.waiting = @ + 1]]_vars
    /\ [][(pub'.last # pub.last /\ pub'.last \in {"resolved", "error"}) =>
             /\ pub'.waiting = pub.waiting - 1
             /\ pub'.calls = pub.calls]_vars
    /\ [](pub.handed + (IF pub.last = "not connected" THEN 1 ELSE 0) <= pub.calls)

\* After a payload went out and disconnect ended the client, a publish
\* was rejected as not connected.
C24_Witness ==
    /\ client.ended
    /\ pub.handed = 1
    /\ pub.waiting = 0
    /\ pub.calls = 3
    /\ pub.last = "not connected"

\* C29: startServer leaves connectDB only for connect of config/mqtt, with
\* the client created in that step, and starts to listen only from there,
\* in the step in which the client connects; exit code 1 is taken only
\* while startServer waits for one of the two, and a process that exited
\* does nothing more, so it never listens.
C29_ListenAfterBothConnects ==
    /\ [][boot'.pc # boot.pc =>
             \/ /\ boot.pc = "connectDB" /\ boot'.pc = "connectMqtt"
                /\ ~client.made /\ client'.made /\ ~client'.connected
                /\ boot'.exit = boot.exit
             \/ /\ boot.pc = "connectMqtt" /\ boot'.pc = "listening"
                /\ ~client.connected /\ client'.connected
                /\ boot'.exit = boot.exit]_vars
    /\ [][(boot'.exit = "1" /\ boot.exit # "1") =>
             boot.pc \in {"connectDB", "connectMqtt"} /\ boot'.pc = boot.pc]_vars
    /\ [][boot.exit \in {"running", "closing"}]_vars
    /\ [](boot.exit = "1" => boot.pc # "listening")

\* The server listens.
C29_Witness ==
    /\ boot = [pc |-> "listening", exit |-> "running"]
    /\ client.made /\ client.connected /\ ~client.ended

(***************************************************************************)
(* Claims on roles.                                                        *)
(***************************************************************************)
\* No stored user has role "admin".
NoAdmin == \A u \in DOMAIN users : users[u].role # "admin"

\* C26: register stores role "user" whatever the payload says; a user
\* becomes admin, or changes role, only in a createUser or updateUser
\* request whose token belongs to a stored admin; so a User store with no
\* admin stays without one.
C26_NoSelfGrantedAdmin ==
    /\ [][(resp'.op = "register" /\ resp'.status = 201 /\ nextOid' # nextOid) =>
             users'[nextOid].role = "user"]_vars
    /\ [][\A u \in DOMAIN users' :
             (\/ u \notin DOMAIN users /\ users'[u].role = "admin"
              \/ u \in DOMAIN users /\ users'[u].role # users[u].role) =>
                /\ req'.op \in {"createUser", "updateUser"}
                /\ req'.token.kind = "valid"
                /\ req'.token.userId \in DOMAIN users
                /\ users[req'.token.userId].role = "admin"]_vars
    /\ [][NoAdmin => NoAdmin']_vars

\* A user who registered with role "admin" in the payload, in a store with
\* no admin, was refused the creation of an admin.
C26_Witness ==
    /\ NoAdmin
    /\ req.op = "createUser"
    /\ "role" \in req.body.present
    /\ req.token.kind = "valid"
    /\ req.token.userId \in DOMAIN users
    /\ users[req.token.userId].username = "ann"
    /\ resp.status = 403
    /\ ~resp.handled

(***************************************************************************)
(* Claims on tokens of deleted and demoted users.                          *)
(***************************************************************************)
\* C27: a create, update or delete request, register and login aside,
\* whose token names a user that is no longer stored is answered 404
\* before its handler, and a user list, create, update or delete request
\* whose token names a stored user that is not admin is answered 403
\* before its handler.
C27_CurrentRecordDecides ==
    [][(/\ req'.token.kind = "valid"
        /\ req'.op \notin {"none", "register", "login", "getUserById",
                           "getDeviceCampaigns"}) =>
          /\ req'.token.userId \notin DOMAIN users =>
                resp'.status = 404 /\ ~resp'.handled /\ stores' = stores
          /\ (/\ req'.token.userId \in DOMAIN users
              /\ users[req'.token.userId].role # "admin"
              /\ req'.op \in UserAdminOps) =>
                resp'.status = 403 /\ ~resp'.handled /\ stores' = stores]_vars

====
